---- MODULE Spec2Model ----
(***************************************************************************)
(* Storefront model: the cart service (getOrCreateCart, mergeCarts,        *)
(* addItemToCart, updateCartItemQuantity, removeCartItem, clearCart) over   *)
(* the Cart / CartItem tables, and the catalog pipeline                     *)
(* (syncAllProductsFromClover, normalizeUnnormalizedProducts,               *)
(* updateProductStockFromWebhook) over the products / product_variants     *)
(* tables, with the HTTP routes in front of the cart service, the Clover   *)
(* fetch and webhook route in front of the catalog, and the classifier.    *)
(* Every handler is a pure operator from a database value to a    *)
(* result record [db, err, ...]; a thrown Error is the err field, and the  *)
(* writes made before the throw stay in db, as they do in the store.       *)
(* addItemToCart, getOrCreateCart with mergeCarts and the normalization    *)
(* loop are also given one await per step, for two requests in flight.     *)
(***************************************************************************)
EXTENDS Integers, Sequences, FiniteSets, TLC

VARIABLES
  carts,      \* Cart table: sequence of rows, most recently updated first
  items,      \* CartItem table: set of rows [id, cartId, productId, quantity]
  cartLast,   \* history: the last cart call and what its caller saw
  products,   \* products table: set of rows (raw rows and Parents)
  variants,   \* product_variants table: set of rows
  catLast,    \* history: the last catalog call and its result
  calls,      \* calls in flight: each request's position and what it has read
  aiImprovementCache,  \* the classifier's Map: entries [key, improvedName, timestamp]
  dateNow     \* Date.now(), in units of the scaled cache duration

cartVars == <<carts, items, cartLast>>
catVars == <<products, variants, catLast>>
cacheVars == <<aiImprovementCache, dateNow>>
vars == <<carts, items, cartLast, products, variants, catLast, calls,
          aiImprovementCache, dateNow>>

NULL == "null"
NONE == "none"

\* ------------------------------------------------------------------ bounds
\* cart-limits.ts is not among the sources: the four limits are small
\* stand-ins for the configured values.
MAX_ITEM_QUANTITY == 2
MAX_CART_ITEMS == 2
MAX_CARTS_PER_USER == 2
MAX_SESSION_CARTS == 2
\* Rows the Cart table may hold (guard on the calls that create a cart).
MaxCarts == 2

Users == {"u1"}
Sessions == {"s1"}
ProductIds == {"A", "B", "C"}

\* ------------------------------------------------------------- generic helpers
Min(S) == CHOOSE x \in S : \A y \in S : x <= y

Range(s) == {s[i] : i \in 1..Len(s)}

\* All orders in which the store may hand back the rows of S.
Orders(S) ==
  {f \in [1..Cardinality(S) -> S] : \A i, j \in 1..Cardinality(S) : f[i] = f[j] => i = j}

RECURSIVE SumQuantity(_)
SumQuantity(S) ==
  IF S = {} THEN 0
  ELSE LET r == CHOOSE x \in S : TRUE IN r.quantity + SumQuantity(S \ {r})

\* ---------------------------------------------------------- numbers (quantity)
\* A quantity argument is a JavaScript number: n, or n + 0.5 when frac.
Num(n) == [n |-> n, frac |-> FALSE]
IsInteger(q) == ~q.frac
NumLeqZero(q) == IF q.frac THEN q.n < 0 ELSE q.n <= 0
\* Faulty variant: no quantity is too large.
NumGtOff(q, m) == FALSE
NumGt(q, m) == IF q.frac THEN q.n >= m ELSE q.n > m

\* ------------------------------------------------------------------ cart store
\* crypto.randomUUID(): an id no row of the table carries.  Ids are only ever
\* compared for equality, so any fresh name will do: a cart takes the least
\* free number, an item row the least free <<cartId, productId, k>>.
NewCartId(db) == Min((1..(Len(db.carts) + 1)) \ {c.id : c \in Range(db.carts)})
NewItemId(db, cartId, productId) ==
  <<cartId, productId,
    Min({k \in 1..(Cardinality(db.items) + 1) :
           \A i \in db.items : i.id # <<cartId, productId, k>>})>>

CartItems(db, cartId) == {i \in db.items : i.cartId = cartId}

\* getCart: the rows .eq('id', cartId) selects; the empty set is its null.
getCart(db, cartId) == {c \in Range(db.carts) : c.id = cartId}

\* .update({ updatedAt: now }).eq('id', cartId): the row becomes the most
\* recently updated one; no row, no change.
StampUpdatedAt(db, cartId) ==
  LET hit == SelectSeq(db.carts, LAMBDA c : c.id = cartId)
      rest == SelectSeq(db.carts, LAMBDA c : c.id # cartId)
  IN [db EXCEPT !.carts = hit \o rest]

\* Faulty variant: the query for the user's carts finds nothing.
UserCartsNone(db, userId) == <<>>

\* .eq('userId', userId).order('updatedAt', desc)
UserCarts(db, userId) == SelectSeq(db.carts, LAMBDA c : c.userId = userId)

\* .eq('sessionId', sessionId).is('userId', null).order('updatedAt', desc)
SessionCarts(db, sessionId) ==
  SelectSeq(db.carts, LAMBDA c : c.sessionId = sessionId /\ c.userId = NULL)

DeleteCarts(db, ids) ==
  [carts |-> SelectSeq(db.carts, LAMBDA c : c.id \notin ids),
   items |-> {i \in db.items : i.cartId \notin ids}]

InsertCart(db, id, userId, sessionId) ==
  [db EXCEPT !.carts = <<[id |-> id, userId |-> userId, sessionId |-> sessionId]>> \o @]

Result(db, err, ret) == [db |-> db, err |-> err, ret |-> ret]

\* ------------------------------------------------------------- addItemToCart
\* Faulty variant: the total is never tested against the cap.
ExceedsItemCapOff(newQuantity) == FALSE

\* newQuantity > MAX_ITEM_QUANTITY
ExceedsItemCap(newQuantity) == newQuantity > MAX_ITEM_QUANTITY

\* Faulty variant: the cart is never full.
CartIsFullOff(n) == FALSE

\* cart.items.length >= MAX_CART_ITEMS
CartIsFull(n) == n >= MAX_CART_ITEMS

\* Faulty variant: the lookup finds no row.
ExistingItemsNone(db, cartId, productId) == {}

\* select('*').eq('cartId', cartId).eq('productId', productId)
ExistingItems(db, cartId, productId) ==
  {i \in db.items : i.cartId = cartId /\ i.productId = productId}

addItemToCart(db, cartId, productId, quantity) ==
  IF NumLeqZero(quantity) \/ ~IsInteger(quantity)
  THEN Result(db, "Quantity must be a positive integer", NULL)
  ELSE IF NumGt(quantity, MAX_ITEM_QUANTITY)
  THEN Result(db, "Quantity cannot exceed MAX_ITEM_QUANTITY per item", NULL)
  ELSE IF getCart(db, cartId) = {}
  THEN Result(db, "Cart not found", NULL)
  ELSE LET existingItems == ExistingItems(db, cartId, productId)
       IN IF existingItems # {}
          THEN LET existingItem == CHOOSE i \in existingItems :
                                     \A j \in existingItems : i.id[3] <= j.id[3]
                   newQuantity == existingItem.quantity + quantity.n
               IN IF ExceedsItemCap(newQuantity)
                  THEN Result(db, "Total quantity cannot exceed MAX_ITEM_QUANTITY per item", NULL)
                  ELSE Result(
                         StampUpdatedAt(
                           [db EXCEPT !.items = (@ \ {existingItem})
                              \cup {[existingItem EXCEPT !.quantity = newQuantity]}],
                           cartId),
                         NONE, existingItem.id)
          ELSE IF CartIsFull(Cardinality(CartItems(db, cartId)))
          THEN Result(db, "Cart cannot have more than MAX_CART_ITEMS items", NULL)
          ELSE LET itemId == NewItemId(db, cartId, productId)
               IN Result(
                    StampUpdatedAt(
                      [db EXCEPT !.items = @ \cup
                         {[id |-> itemId, cartId |-> cartId,
                           productId |-> productId, quantity |-> quantity.n]}],
                      cartId),
                    NONE, itemId)

\* Faulty variant: the row is selected and updated by its id alone.
updateCartItemQuantityAnyCart(db, cartId, itemId, quantity) ==
  IF NumLeqZero(quantity) \/ ~IsInteger(quantity)
  THEN Result(db, "Quantity must be a positive integer", NULL)
  ELSE IF NumGt(quantity, MAX_ITEM_QUANTITY)
  THEN Result(db, "Quantity cannot exceed MAX_ITEM_QUANTITY per item", NULL)
  ELSE LET hit == {i \in db.items : i.id = itemId}
       IN IF hit = {}
          THEN Result(db, "Cart item not found or does not belong to this cart", NULL)
          ELSE LET item == CHOOSE i \in hit : TRUE
               IN Result(
                    StampUpdatedAt(
                      [db EXCEPT !.items = (@ \ {item})
                         \cup {[item EXCEPT !.quantity = quantity.n]}],
                      cartId),
                    NONE, itemId)

\* ---------------------------------------------------- updateCartItemQuantity
updateCartItemQuantity(db, cartId, itemId, quantity) ==
  IF NumLeqZero(quantity) \/ ~IsInteger(quantity)
  THEN Result(db, "Quantity must be a positive integer", NULL)
  ELSE IF NumGt(quantity, MAX_ITEM_QUANTITY)
  THEN Result(db, "Quantity cannot exceed MAX_ITEM_QUANTITY per item", NULL)
  ELSE LET hit == {i \in db.items : i.id = itemId /\ i.cartId = cartId}
       IN IF hit = {}
          THEN Result(db, "Cart item not found or does not belong to this cart", NULL)
          ELSE LET item == CHOOSE i \in hit : TRUE
               IN Result(
                    StampUpdatedAt(
                      [db EXCEPT !.items = (@ \ {item})
                         \cup {[item EXCEPT !.quantity = quantity.n]}],
                      cartId),
                    NONE, itemId)

\* ---------------------------------------------------- removeCartItem, clearCart
removeCartItem(db, cartId, itemId) ==
  Result(
    StampUpdatedAt(
      [db EXCEPT !.items = {i \in @ : ~(i.id = itemId /\ i.cartId = cartId)}],
      cartId),
    NONE, NULL)

clearCart(db, cartId) ==
  Result(
    StampUpdatedAt([db EXCEPT !.items = {i \in @ : i.cartId # cartId}], cartId),
    NONE, NULL)

\* ------------------------------------------------------------------ mergeCarts
\* Faulty variant: the session quantity replaces the user cart's.
MergedQuantityOverwrite(existingQuantity, sessionQuantity) == sessionQuantity

\* existingUserItem.quantity + sessionItem.quantity
MergedQuantity(existingQuantity, sessionQuantity) == existingQuantity + sessionQuantity

\* for (const sessionItem of sessionCart.items): userItems is the snapshot of
\* the user cart's items taken before the loop; a throw ends the loop with
\* the earlier iterations' writes in place.
RECURSIVE MergeLoop(_, _, _, _, _)
MergeLoop(db, userItems, userCartId, order, k) ==
  IF k > Len(order)
  THEN Result(db, NONE, NULL)
  ELSE LET sessionItem == order[k]
           found == {i \in userItems : i.productId = sessionItem.productId}
           step ==
             IF found # {}
             THEN LET existingUserItem == CHOOSE i \in found : \A j \in found : i.id[3] <= j.id[3]
                  IN updateCartItemQuantity(db, userCartId, existingUserItem.id,
                       Num(MergedQuantity(existingUserItem.quantity, sessionItem.quantity)))
             ELSE addItemToCart(db, userCartId, sessionItem.productId,
                                Num(sessionItem.quantity))
       IN IF step.err # NONE
          THEN step
          ELSE MergeLoop(step.db, userItems, userCartId, order, k + 1)

\* order: the session cart's item rows in the order the store returned them.
mergeCarts(db, sessionCartId, userCartId, order) ==
  IF getCart(db, sessionCartId) = {} \/ getCart(db, userCartId) = {}
  THEN Result(db, "One or both carts not found", NULL)
  ELSE IF CartItems(db, sessionCartId) = {}
  THEN Result([db EXCEPT !.carts = SelectSeq(@, LAMBDA c : c.id # sessionCartId)],
              NONE, userCartId)
  ELSE LET loop == MergeLoop(db, CartItems(db, userCartId), userCartId, order, 1)
       IN IF loop.err # NONE
          THEN loop
          ELSE LET noItems == [loop.db EXCEPT !.items = {i \in @ : i.cartId # sessionCartId}]
                   noCart == [noItems EXCEPT
                                !.carts = SelectSeq(@, LAMBDA c : c.id # sessionCartId)]
               IN IF getCart(noCart, userCartId) = {}
                  THEN Result(noCart, "Failed to retrieve merged cart", NULL)
                  ELSE Result(noCart, NONE, userCartId)

\* ------------------------------------------------------------- getOrCreateCart
\* Faulty variant: slice(cap), one cart too few.
CartsToDeleteOffByOne(cs, cap) == {cs[i].id : i \in {j \in 1..Len(cs) : j > cap}}

\* slice(cap - 1) of the carts ordered by updatedAt descending.
CartsToDelete(cs, cap) == {cs[i].id : i \in {j \in 1..Len(cs) : j > cap - 1}}

EvictAndCreate(db, owned, cap, userId, sessionId) ==
  LET kept == IF Len(owned) >= cap THEN DeleteCarts(db, CartsToDelete(owned, cap)) ELSE db
      cartId == NewCartId(kept)
  IN Result(InsertCart(kept, cartId, userId, sessionId), NONE, cartId)

\* Faulty variant: the session cart gets the user but keeps its sessionId.
RehomeCartKeepsSession(db, sessionCartId, userId) ==
  LET hit == SelectSeq(db.carts, LAMBDA c : c.id = sessionCartId)
      rest == SelectSeq(db.carts, LAMBDA c : c.id # sessionCartId)
  IN [db EXCEPT !.carts = <<[hit[1] EXCEPT !.userId = userId]>> \o rest]

\* The session cart is converted in place: userId set, sessionId cleared.
RehomeCart(db, sessionCartId, userId) ==
  LET hit == SelectSeq(db.carts, LAMBDA c : c.id = sessionCartId)
      rest == SelectSeq(db.carts, LAMBDA c : c.id # sessionCartId)
  IN [db EXCEPT !.carts = <<[hit[1] EXCEPT !.userId = userId, !.sessionId = NULL]>> \o rest]

getOrCreateCart(db, userId, sessionId, order) ==
  IF userId # NULL
  THEN LET existingUserCarts == UserCarts(db, userId)
           existingSessionCarts ==
             IF sessionId # NULL THEN SessionCarts(db, sessionId) ELSE <<>>
       IN IF Len(existingSessionCarts) > 0
          THEN IF Len(existingUserCarts) > 0
               THEN mergeCarts(db, existingSessionCarts[1].id, existingUserCarts[1].id, order)
               ELSE Result(RehomeCart(db, existingSessionCarts[1].id, userId),
                           NONE, existingSessionCarts[1].id)
          ELSE IF Len(existingUserCarts) > 0
          THEN Result(db, NONE, existingUserCarts[1].id)
          ELSE EvictAndCreate(db, UserCarts(db, userId), MAX_CARTS_PER_USER, userId, NULL)
  ELSE IF sessionId # NULL
  THEN LET existingCarts == SessionCarts(db, sessionId)
       IN IF Len(existingCarts) > 0
          THEN Result(db, NONE, existingCarts[1].id)
          ELSE EvictAndCreate(db, SessionCarts(db, sessionId), MAX_SESSION_CARTS,
                              NULL, sessionId)
  ELSE LET cartId == NewCartId(db)
       IN Result(InsertCart(db, cartId, NULL, NULL), NONE, cartId)

\* getOrCreateCart past its lookups when they gave no row: the select set
\* userCartError / sessionCartError / error (the code then goes on as if
\* there were no cart), or the rows were inserted by other calls after the
\* lookup.  What is left is the eviction and the insert.
CreateCart(db, userId, sessionId) ==
  IF userId # NULL
  THEN EvictAndCreate(db, UserCarts(db, userId), MAX_CARTS_PER_USER, userId, NULL)
  ELSE IF sessionId # NULL
  THEN EvictAndCreate(db, SessionCarts(db, sessionId), MAX_SESSION_CARTS, NULL, sessionId)
  ELSE LET cartId == NewCartId(db)
       IN Result(InsertCart(db, cartId, NULL, NULL), NONE, cartId)

\* The orders in which the merge of this call may walk the session cart.
MergeOrders(db, userId, sessionId) ==
  IF userId # NULL /\ sessionId # NULL /\ Len(SessionCarts(db, sessionId)) > 0
  THEN Orders(CartItems(db, SessionCarts(db, sessionId)[1].id))
  ELSE {<<>>}

\* ==================================================================== catalog
\* The upstream feed: what fetchCloverInventoryServer may return for an item.
CloverIds == {"x1", "x2"}
MaxStock == 1
Prices == {100}

\* The name Clover carries for an item.
RawName(cloverId) == IF cloverId = "x1" THEN "Nike Dunk Low sz 9" ELSE "NIKE DUNK 10"

Feeds ==
  UNION {[S -> [price : Prices, stockCount : 0..MaxStock]] : S \in SUBSET CloverIds}

\* ------------------------------------------------------------ upstream fetch
\* The order in which Clover lists its items.
CloverOrder == <<"x1", "x2">>
FeedSeq(feed) == SelectSeq(CloverOrder, LAMBDA id : id \in DOMAIN feed)

\* limit (items per request), maxPages and maxRetries of the fetch.
pageLimit == 1
maxPages == 10
maxRetries == 3

\* What Clover answers to the attempts of one request, in order: "ok" (a 2xx
\* with a JSON body), "retryable" (429, 502, 503) or "error" (any other
\* status, an unparsable body, a network error).
AttemptScripts ==
  {<<"ok">>, <<"error">>, <<"retryable", "ok">>,
   <<"retryable", "retryable", "retryable", "retryable">>}

\* fetchCloverInventoryPage: TRUE when the request ends with a page, FALSE
\* when it throws.
RECURSIVE fetchCloverInventoryPage(_, _)
fetchCloverInventoryPage(script, retryCount) ==
  LET status == script[retryCount + 1]
  IN IF status = "retryable"
     THEN IF retryCount < maxRetries
          THEN fetchCloverInventoryPage(script, retryCount + 1)
          ELSE FALSE
     ELSE status = "ok"

\* The items ?limit=pageLimit&offset=offset selects.
PageOf(feed, offset) ==
  LET all == FeedSeq(feed)
  IN SubSeq(all, offset + 1, IF offset + pageLimit < Len(all) THEN offset + pageLimit ELSE Len(all))

Fetched(fetched) == [threw |-> FALSE, items |-> fetched]
FetchThrew == [threw |-> TRUE, items |-> <<>>]

\* Faulty variant: a failing page ends the fetch with the pages read so far.
RECURSIVE FetchPagesPartial(_, _, _, _, _)
FetchPagesPartial(feed, scenario, allItems, offset, pageCount) ==
  IF pageCount >= maxPages
  THEN Fetched(allItems)
  ELSE IF fetchCloverInventoryPage(scenario.pages[pageCount + 1], 0)
  THEN LET page == PageOf(feed, offset)
       IN IF Len(page) < pageLimit
          THEN Fetched(allItems \o page)
          ELSE FetchPagesPartial(feed, scenario, allItems \o page,
                                 offset + pageLimit, pageCount + 1)
  ELSE IF pageCount = 0
  THEN IF fetchCloverInventoryPage(scenario.fallback, 0)
       THEN Fetched(FeedSeq(feed))
       ELSE FetchThrew
  ELSE Fetched(allItems)

\* The while loop of fetchCloverInventoryInternal: pages are read until a
\* short one; a failing first page is tried again without limit and offset;
\* any other failing page throws.
RECURSIVE FetchPages(_, _, _, _, _)
FetchPages(feed, scenario, allItems, offset, pageCount) ==
  IF pageCount >= maxPages
  THEN Fetched(allItems)
  ELSE IF fetchCloverInventoryPage(scenario.pages[pageCount + 1], 0)
  THEN LET page == PageOf(feed, offset)
       IN IF Len(page) < pageLimit
          THEN Fetched(allItems \o page)
          ELSE FetchPages(feed, scenario, allItems \o page,
                          offset + pageLimit, pageCount + 1)
  ELSE IF pageCount = 0
  THEN IF fetchCloverInventoryPage(scenario.fallback, 0)
       THEN Fetched(FeedSeq(feed))
       ELSE FetchThrew
  ELSE FetchThrew

\* fetchCloverInventoryInternal / fetchCloverInventoryServer: throws when the
\* connection cannot be verified or the page loop throws.
fetchCloverInventoryServer(feed, scenario) ==
  IF ~scenario.verified
  THEN FetchThrew
  ELSE FetchPages(feed, scenario, <<>>, 0, 0)

\* The requests a full fetch of the feed makes.
NumPages(feed) ==
  IF Len(FeedSeq(feed)) \div pageLimit + 1 < maxPages
  THEN Len(FeedSeq(feed)) \div pageLimit + 1
  ELSE maxPages

\* What the requests of one fetch may meet.  Requests the fetch does not
\* come to make are given "ok".
RECURSIVE PageScripts(_)
PageScripts(n) ==
  IF n = 0
  THEN {<<>>}
  ELSE {<<script>> \o rest :
          script \in {a \in AttemptScripts : fetchCloverInventoryPage(a, 0)},
          rest \in PageScripts(n - 1)}
       \cup {<<script>> \o [k \in 1..(n - 1) |-> <<"ok">>] :
               script \in {a \in AttemptScripts : ~fetchCloverInventoryPage(a, 0)}}

FetchScenarios(feed) ==
  {[verified |-> FALSE, pages |-> [k \in 1..NumPages(feed) |-> <<"ok">>],
    fallback |-> <<"ok">>]}
  \cup {[verified |-> TRUE, pages |-> pages, fallback |-> <<"ok">>] :
          pages \in {q \in PageScripts(NumPages(feed)) : fetchCloverInventoryPage(q[1], 0)}}
  \cup {[verified |-> TRUE, pages |-> pages, fallback |-> fallback] :
          pages \in {q \in PageScripts(NumPages(feed)) : ~fetchCloverInventoryPage(q[1], 0)},
          fallback \in AttemptScripts}

\* ------------------------------------------------------------ products store
RawId(cloverId) == <<"raw", cloverId>>

\* gen_random_uuid() for a Parent row and for a variant row: a fresh id; ids
\* are only compared for equality, so the id is named after the row it is for.
NewParentId(db, brand, model) ==
  <<"parent", Min({k \in 1..(Cardinality(db.products) + 1) :
                     \A p \in db.products : p.id # <<"parent", k, brand, model>>}),
    brand, model>>
NewVariantId(db, cloverItemId) ==
  <<cloverItemId, Min({k \in 1..(Cardinality(db.variants) + 1) :
                         \A v \in db.variants : v.id # <<cloverItemId, k>>})>>

RECURSIVE SumStock(_)
SumStock(S) ==
  IF S = {} THEN 0
  ELSE LET r == CHOOSE x \in S : TRUE IN r.stock_quantity + SumStock(S \ {r})

\* The row an INSERT of a sync payload makes: the columns the payload does
\* not name take their defaults.
InsertedRawRow(p) ==
  [id |-> RawId(p.clover_id), clover_id |-> p.clover_id, raw_name |-> p.raw_name,
   clean_name |-> NULL, clean_brand |-> NULL, clean_model |-> NULL,
   clean_size |-> NULL, clean_colorway |-> NULL, product_type |-> "other",
   price |-> p.price, stock_quantity |-> p.stock_quantity,
   is_normalized |-> p.is_normalized, is_parent |-> FALSE]

\* ON CONFLICT (clover_id) DO UPDATE: every column the payload names is
\* overwritten, is_normalized among them.
UpdatedOnConflict(row, p) ==
  [row EXCEPT !.raw_name = p.raw_name, !.price = p.price,
              !.stock_quantity = p.stock_quantity,
              !.is_normalized = p.is_normalized]

\* upsert(products, { onConflict: 'clover_id' })
upsertProducts(db, payload) ==
  LET ids == {p.clover_id : p \in payload}
      updated == {UpdatedOnConflict(row, CHOOSE p \in payload : p.clover_id = row.clover_id) :
                    row \in {r \in db.products : r.clover_id \in ids}}
      inserted == {InsertedRawRow(p) :
                     p \in {q \in payload : \A r \in db.products : r.clover_id # q.clover_id}}
  IN [db EXCEPT !.products = {r \in @ : r.clover_id \notin ids} \cup updated \cup inserted]

\* syncAllProductsFromClover: every fetched item becomes a payload row with
\* is_normalized: false.
\* A fetch that throws is caught: the result keeps its zeros and gets one
\* 'Sync failed' error.
syncAllProductsFromClover(db, feed, scenario) ==
  LET cloverItems == fetchCloverInventoryServer(feed, scenario)
      payload == {[clover_id |-> id, raw_name |-> RawName(id), price |-> feed[id].price,
                   stock_quantity |-> feed[id].stockCount, is_normalized |-> FALSE] :
                    id \in Range(cloverItems.items)}
  IN IF cloverItems.threw
     THEN [db |-> db,
           result |-> [total |-> 0, synced |-> 0, normalized |-> 0, errors |-> 1,
                       rateLimited |-> FALSE]]
     ELSE [db |-> upsertProducts(db, payload),
           result |-> [total |-> Len(cloverItems.items), synced |-> Cardinality(payload),
                       normalized |-> 0, errors |-> 0, rateLimited |-> FALSE]]

\* { ...row, ...updates }: the columns updates names take its values.
Patch(row, updates) ==
  [f \in DOMAIN row |-> IF f \in DOMAIN updates THEN updates[f] ELSE row[f]]

\* update(updates).eq('clover_id', cloverId).select().single(): throws unless
\* exactly one row matched; the store's error message carries no '429'.
updateProductByCloverById(db, cloverId, updates) ==
  LET hit == {r \in db.products : r.clover_id = cloverId}
  IN [db |-> [db EXCEPT !.products = (@ \ hit) \cup {Patch(r, updates) : r \in hit}],
      threw |-> Cardinality(hit) # 1, has429 |-> FALSE]

\* updateProductStockFromWebhook: false when the update threw.
updateProductStockFromWebhook(db, cloverId, stockQuantity) ==
  LET u == updateProductByCloverById(db, cloverId, [stock_quantity |-> stockQuantity])
  IN [db |-> u.db, success |-> ~u.threw]

\* ------------------------------------------------------------ webhook route
\* The event types the route knows, and one it does not.
EventTypes == {"INVENTORY_UPDATE", "ITEM_UPDATE", "ITEM_CREATE", "ITEM_DELETE", "OTHER"}

\* NextResponse.json({ success, ... }): the body's success and the status.
Response(success) == [success |-> success, status |-> 200]

\* Faulty variant: the deleted item's row is removed.
ItemDeleteRemovesRow(db, deletedItemId) ==
  [db EXCEPT !.products = {r \in @ : r.clover_id # deletedItemId}]

\* case 'ITEM_DELETE': the stock goes to 0; the outcome of the update is
\* not looked at.
ItemDelete(db, deletedItemId) ==
  updateProductStockFromWebhook(db, deletedItemId, 0).db

\* POST of the webhook route.  body.itemId is NULL when the event carries
\* none; body has a stockCount field only when the event carries one.
WebhookPOST(db, body) ==
  IF body.type \in {"INVENTORY_UPDATE", "ITEM_UPDATE"}
  THEN IF body.itemId # NULL /\ "stockCount" \in DOMAIN body
       THEN LET r == updateProductStockFromWebhook(db, body.itemId, body.stockCount)
            IN [db |-> r.db, response |-> Response(r.success)]
       ELSE [db |-> db, response |-> Response(TRUE)]
  ELSE IF body.type = "ITEM_CREATE"
  THEN [db |-> db, response |-> Response(TRUE)]
  ELSE IF body.type = "ITEM_DELETE"
  THEN IF body.itemId # NULL
       THEN [db |-> ItemDelete(db, body.itemId), response |-> Response(TRUE)]
       ELSE [db |-> db, response |-> Response(TRUE)]
  ELSE [db |-> db, response |-> Response(TRUE)]

\* ------------------------------------------------------------ name classifier
\* What a provider may answer: a rate-limit status, another failure (non-OK
\* status, no or malformed JSON, no cleanedName), or a parsed result.
RateLimited429 == [kind |-> "429"]
Failure == [kind |-> "error"]
Parsed(brand, model, size, confidence) ==
  [kind |-> "json",
   data |-> [ok |-> TRUE, cleanedName |-> brand \o " " \o model, brand |-> brand,
             model |-> model, productType |-> "sneaker", size |-> size,
             colorway |-> NULL, condition |-> "new", variantNumber |-> NULL,
             confidence |-> confidence]]

\* fetch() itself throws; content that is no JSON; JSON without one field.
TransportFailure == [kind |-> "transport"]
Unparsable == [kind |-> "text"]
Without(response, field) ==
  [kind |-> "json",
   data |-> [f \in DOMAIN response.data \ {field} |-> response.data[f]]]

\* The size a name states, and the models it can be read as: the first
\* name's model is read one way or the other.
SizeIn(rawName) == IF rawName = RawName("x1") THEN "9" ELSE "10"
ModelsIn(rawName) == IF rawName = RawName("x1") THEN {"Dunk", "AF1"} ELSE {"Dunk"}

\* Answers that are not a complete result.
Malformed(rawName) ==
  {TransportFailure, Unparsable,
   Without(Parsed("Nike", "Dunk", SizeIn(rawName), "high"), "cleanedName"),
   Without(Parsed("Nike", "Dunk", SizeIn(rawName), "high"), "brand")}

\* What one classification of a name may meet: the process-local cache
\* (aiImprovementCache, empty in a fresh process and after expiry) misses or
\* holds an earlier result, and Groq and Hugging Face answer.  The providers'
\* answers matter only on a miss, the fallback's only when Groq failed.
ProviderAnswers(rawName) ==
  {[cached |-> Failure, groq |-> g, hf |-> Failure] :
     g \in {RateLimited429, Failure, Parsed("Nike", "Dunk", SizeIn(rawName), "low")}
           \cup {Parsed("Nike", model, SizeIn(rawName), "high") :
                   model \in ModelsIn(rawName)}}
  \cup {[cached |-> Failure, groq |-> g,
          hf |-> Parsed("Nike", "Dunk", SizeIn(rawName), "high")] :
          g \in {RateLimited429, Failure}}
  \cup {[cached |-> Parsed("Nike", "Dunk", SizeIn(rawName), "high"),
          groq |-> Failure, hf |-> Failure]}

NullResult == [ok |-> FALSE]

\* Faulty variant: a result without brand is no result.
parseAIResponseRequiresBrand(response) ==
  IF response.kind # "json" THEN NullResult
  ELSE IF "cleanedName" \notin DOMAIN response.data THEN NullResult
  ELSE IF "brand" \notin DOMAIN response.data THEN NullResult
  ELSE response.data

\* String.prototype.toLowerCase, trim and startsWith on the texts of a
\* provider's answer.
UpperCase == "ABCDEFGHIJKLMNOPQRSTUVWXYZ"
LowerCase == "abcdefghijklmnopqrstuvwxyz"
LowerOf ==
  [ch \in {SubSeq(UpperCase, i, i) : i \in 1..Len(UpperCase)} |->
     LET i == CHOOSE j \in 1..Len(UpperCase) : SubSeq(UpperCase, j, j) = ch
     IN SubSeq(LowerCase, i, i)]

toLowerCaseChar(ch) == IF ch \in DOMAIN LowerOf THEN LowerOf[ch] ELSE ch

\* text.toLowerCase().startsWith(prefix.toLowerCase()), character by
\* character.
RECURSIVE startsWithLowerCased(_, _)
startsWithLowerCased(text, prefix) ==
  IF Len(prefix) = 0 THEN TRUE
  ELSE IF Len(text) = 0 THEN FALSE
  ELSE /\ toLowerCaseChar(SubSeq(text, 1, 1)) = toLowerCaseChar(SubSeq(prefix, 1, 1))
       /\ startsWithLowerCased(SubSeq(text, 2, Len(text)), SubSeq(prefix, 2, Len(prefix)))

RECURSIVE trimText(_)
trimText(text) ==
  IF Len(text) = 0 THEN ""
  ELSE IF SubSeq(text, 1, 1) = " " THEN trimText(SubSeq(text, 2, Len(text)))
  ELSE IF SubSeq(text, Len(text), Len(text)) = " "
  THEN trimText(SubSeq(text, 1, Len(text) - 1))
  ELSE text

startsWith(text, prefix) ==
  Len(prefix) <= Len(text) /\ SubSeq(text, 1, Len(prefix)) = prefix

\* The "validate and fix" block of parseAIResponse: a model that starts with
\* the brand, whatever the case, loses brand.length characters and is
\* trimmed; a productType outside the four becomes 'other'; a condition
\* that is set and is none of 'new', 'used', 'ds' becomes undefined.
ValidateAndFix(parsed) ==
  [parsed EXCEPT
     !.model = IF /\ @ # "" /\ @ # NULL /\ parsed.brand # ""
                  /\ startsWithLowerCased(@, parsed.brand)
               THEN trimText(SubSeq(@, Len(parsed.brand) + 1, Len(@)))
               ELSE @,
     !.productType = IF @ \in {"sneaker", "apparel", "accessory", "other"}
                     THEN @ ELSE "other",
     !.condition = IF @ # "" /\ @ # NULL /\ @ \notin {"new", "used", "ds"}
                   THEN NULL ELSE @]

\* parseAIResponse: null when the content is no JSON or has no cleanedName;
\* a missing brand becomes ''; the result is validated and fixed.
parseAIResponse(response) ==
  IF response.kind # "json" THEN NullResult
  ELSE IF "cleanedName" \notin DOMAIN response.data THEN NullResult
  ELSE IF "brand" \notin DOMAIN response.data
  THEN ValidateAndFix([f \in DOMAIN response.data \cup {"brand"} |->
                         IF f = "brand" THEN "" ELSE response.data[f]])
  ELSE ValidateAndFix(response.data)

\* callGroqAPI: throws when fetch throws and on 429, null on another non-OK
\* status.
callGroqAPI(response) ==
  IF response.kind \in {"429", "transport"} THEN [threw |-> TRUE, value |-> NullResult]
  ELSE IF response.kind = "error" THEN [threw |-> FALSE, value |-> NullResult]
  ELSE [threw |-> FALSE, value |-> parseAIResponse(response)]

\* callHuggingFaceAPI: never throws; null on a thrown fetch and on any
\* non-OK status.
callHuggingFaceAPI(response) ==
  IF response.kind = "json" THEN parseAIResponse(response) ELSE NullResult

\* getCachedHFImprovement: the cached result, null on a miss.
getCachedHFImprovement(cached) ==
  IF cached.kind = "json" THEN cached.data ELSE NullResult

\* cleanProductNameWithAI: the cache first, then Groq; whatever Groq's
\* failure, thrown 429 included, it is caught and the Hugging Face fallback
\* is tried; null when both fail.  Nothing is thrown to the caller.
cleanProductNameWithAI(cached, groq, hf) ==
  LET c == getCachedHFImprovement(cached)
      g == callGroqAPI(groq)
  IN IF c.ok THEN c
     ELSE IF ~g.threw /\ g.value.ok THEN g.value
     ELSE callHuggingFaceAPI(hf)

\* Whether cleanProductNameWithAI reaches the Hugging Face call: on a cache
\* miss, after any Groq outcome that did not return a result (the catch
\* block and the null return both fall through to the fallback).
FallbackCalled(cached, groq) ==
  LET c == getCachedHFImprovement(cached)
      g == callGroqAPI(groq)
  IN ~c.ok /\ ~(~g.threw /\ g.value.ok)

\* setCachedHFImprovement calls of one cleanProductNameWithAI: none on a cache
\* hit, otherwise the provider's result under the original name.
CacheWrites(originalName, cached, groq, hf) ==
  LET c == getCachedHFImprovement(cached)
      r == cleanProductNameWithAI(cached, groq, hf)
  IN IF c.ok \/ ~r.ok THEN {} ELSE {[key |-> originalName, value |-> r]}

\* ------------------------------------------------------- normalization pipeline
\* Faulty variant: the lookup finds no Parent.
findParentProductNone(db, brand, model) == {}

\* .eq('is_parent', true).eq('clean_brand', brand).eq('clean_model', model)
findParentProduct(db, brand, model) ==
  {p \in db.products : p.is_parent /\ p.clean_brand = brand /\ p.clean_model = model}

\* upsertProduct of a Parent: clover_id is null, so no row conflicts.
\* Faulty variant: the Parent is inserted without its clean name.
NewParentRowUnnamed(db, aiResult, product) ==
  [id |-> NewParentId(db, aiResult.brand, aiResult.model), clover_id |-> NULL,
   raw_name |-> trimText(aiResult.brand \o " " \o aiResult.model),
   clean_name |-> NULL,
   clean_brand |-> aiResult.brand, clean_model |-> aiResult.model,
   clean_size |-> NULL, clean_colorway |-> NULL,
   product_type |-> aiResult.productType, price |-> product.price,
   stock_quantity |-> 0, is_normalized |-> TRUE, is_parent |-> TRUE]

NewParentRow(db, aiResult, product) ==
  [id |-> NewParentId(db, aiResult.brand, aiResult.model), clover_id |-> NULL,
   raw_name |-> trimText(aiResult.brand \o " " \o aiResult.model),
   clean_name |-> trimText(aiResult.brand \o " " \o aiResult.model),
   clean_brand |-> aiResult.brand, clean_model |-> aiResult.model,
   clean_size |-> NULL, clean_colorway |-> NULL,
   product_type |-> aiResult.productType, price |-> product.price,
   stock_quantity |-> 0, is_normalized |-> TRUE, is_parent |-> TRUE]

\* Faulty variant: a plain insert, no conflict target.
insertVariantAlways(db, variant) ==
  [db EXCEPT !.variants = @ \cup
     {[id |-> NewVariantId(db, variant.clover_item_id)] @@ variant}]

\* upsert(variant, { onConflict: 'clover_item_id' })
insertVariant(db, variant) ==
  LET hit == {v \in db.variants : v.clover_item_id = variant.clover_item_id}
  IN IF hit # {}
     THEN [db EXCEPT !.variants = (@ \ hit) \cup {Patch(v, variant) : v \in hit}]
     ELSE [db EXCEPT !.variants = @ \cup
             {[id |-> NewVariantId(db, variant.clover_item_id)] @@ variant}]

\* Faulty variant: the variants' sum is added to the stock the row has.
updateParentStockAdds(db, parentId) ==
  LET totalStock == SumStock({v \in db.variants : v.product_id = parentId})
  IN [db EXCEPT !.products =
        {IF p.id = parentId THEN [p EXCEPT !.stock_quantity = @ + totalStock] ELSE p :
           p \in @}]

\* updateParentStock: the Parent's stock becomes the sum over its variants.
updateParentStock(db, parentId) ==
  LET totalStock == SumStock({v \in db.variants : v.product_id = parentId})
  IN [db EXCEPT !.products =
        {IF p.id = parentId THEN [p EXCEPT !.stock_quantity = totalStock] ELSE p : p \in @}]

\* .eq('is_normalized', false).gt('stock_quantity', 0)
Unnormalized(db) == {r \in db.products : ~r.is_normalized /\ r.stock_quantity > 0}

\* Faulty variant: no filter on is_normalized or stock.
UnnormalizedAll(db, limit) ==
  {rows \in UNION {Orders(S) : S \in SUBSET db.products} :
     Len(rows) = IF Cardinality(db.products) < limit
                 THEN Cardinality(db.products) ELSE limit}

\* getUnnormalizedProducts(limit): any limit of the matching rows, in any order.
getUnnormalizedProducts(db, limit) ==
  {rows \in UNION {Orders(S) : S \in SUBSET Unnormalized(db)} :
     Len(rows) = IF Cardinality(Unnormalized(db)) < limit
                 THEN Cardinality(Unnormalized(db)) ELSE limit}

\* Faulty variant: the confidence is not tested.
IsClassifiedAnyConfidence(aiResult) == aiResult.ok

\* aiResult && aiResult.confidence !== 'low'
IsClassified(aiResult) == aiResult.ok /\ aiResult.confidence # "low"

\* Faulty variant: any error caught stops the batch.
OutcomeStopsOnAnyError(u, done) ==
  IF u.threw THEN "rateLimited" ELSE done

\* The loop's catch: an error whose message includes '429' is the rate-limit
\* signal, any other is recorded.  The errors that reach it are the store's:
\* cleanProductNameWithAI throws nothing.
Outcome(u, done) ==
  IF u.threw THEN (IF u.has429 THEN "rateLimited" ELSE "error") ELSE done

\* The loop body of a classified row after the Parent lookup: the Parent is
\* created when the lookup found none, the variant upserted, the Parent's
\* stock recomputed and the raw row marked.
AttachToParent(db, product, aiResult, existingParent) ==
  LET created == NewParentRow(db, aiResult, product)
      parentId == IF existingParent # {}
                  THEN (CHOOSE p \in existingParent :
                          \A q \in existingParent : p.id[2] <= q.id[2]).id
                  ELSE created.id
      db1 == IF existingParent # {} THEN db
             ELSE [db EXCEPT !.products = @ \cup {created}]
      db2 == insertVariant(db1,
               [product_id |-> parentId, clover_item_id |-> product.clover_id,
                size |-> aiResult.size, color |-> aiResult.colorway,
                condition |-> aiResult.condition,
                variant_number |-> aiResult.variantNumber,
                price |-> product.price,
                stock_quantity |-> product.stock_quantity])
      db3 == updateParentStock(db2, parentId)
      u == updateProductByCloverById(db3, product.clover_id,
             [clean_name |-> aiResult.cleanedName, clean_brand |-> aiResult.brand,
              clean_model |-> aiResult.model, clean_size |-> aiResult.size,
              product_type |-> aiResult.productType,
              is_normalized |-> TRUE, is_parent |-> FALSE])
  IN [db |-> u.db, outcome |-> Outcome(u, "normalized")]

\* The loop body of a classified row cut short by the end of the process
\* after the await named by point: the Parent's insert, the variant's
\* upsert, or the recomputation of the Parent's stock.  The raw row is not
\* marked.
AttachInterrupted(db, product, aiResult, existingParent, point) ==
  LET created == NewParentRow(db, aiResult, product)
      parentId == IF existingParent # {}
                  THEN (CHOOSE p \in existingParent :
                          \A q \in existingParent : p.id[2] <= q.id[2]).id
                  ELSE created.id
      db1 == IF existingParent # {} THEN db
             ELSE [db EXCEPT !.products = @ \cup {created}]
      db2 == insertVariant(db1,
               [product_id |-> parentId, clover_item_id |-> product.clover_id,
                size |-> aiResult.size, color |-> aiResult.colorway,
                condition |-> aiResult.condition,
                variant_number |-> aiResult.variantNumber,
                price |-> product.price,
                stock_quantity |-> product.stock_quantity])
      db3 == updateParentStock(db2, parentId)
  IN IF point = "parent" THEN db1 ELSE IF point = "variant" THEN db2 ELSE db3

\* The body of the loop for one row, up to the sleep: the row is classified
\* and either attached to a Parent as a variant or parked as 'other'.
NormalizeRow(db, product, answer) ==
  LET aiResult == cleanProductNameWithAI(answer.cached, answer.groq, answer.hf)
  IN IF IsClassified(aiResult)
     THEN AttachToParent(db, product, aiResult,
                         findParentProduct(db, aiResult.brand, aiResult.model))
     ELSE LET u == updateProductByCloverById(db, product.clover_id,
                     [clean_name |-> product.raw_name, product_type |-> "other",
                      is_normalized |-> TRUE, is_parent |-> FALSE])
          IN [db |-> u.db, outcome |-> Outcome(u, "fallback")]

\* for (const product of unnormalized): a rate-limit error breaks the loop,
\* any other error is recorded and the loop goes on.
RECURSIVE NormalizeLoop(_, _, _, _, _)
NormalizeLoop(db, rows, answers, k, result) ==
  IF k > Len(rows)
  THEN [db |-> db, result |-> result]
  ELSE LET row == NormalizeRow(db, rows[k], answers[k])
       IN IF row.outcome = "rateLimited"
          THEN [db |-> row.db, result |-> [result EXCEPT !.rateLimited = TRUE]]
          ELSE NormalizeLoop(row.db, rows, answers, k + 1,
                 [result EXCEPT
                    !.normalized = @ + (IF row.outcome = "normalized" THEN 1 ELSE 0),
                    !.synced = @ + (IF row.outcome = "fallback" THEN 1 ELSE 0),
                    !.errors = @ + (IF row.outcome = "error" THEN 1 ELSE 0)])

\* normalizeUnnormalizedProducts: rows is what getUnnormalizedProducts
\* returned, answers[k] what the providers answer for row k.
normalizeUnnormalizedProducts(db, rows, answers) ==
  NormalizeLoop(db, rows, answers, 1,
    [total |-> Len(rows), synced |-> 0, normalized |-> 0, errors |-> 0,
     rateLimited |-> FALSE])

\* The store calls of the loop body that throw the error the store returns.
StoreCalls == {"upsertProduct", "insertVariant", "updateProductByCloverById"}

\* What the store does to one row's calls: nothing, or the error it returns
\* to the call named by at, whose message may carry the digits 429.
NoFault == [at |-> "none", has429 |-> FALSE]
StoreFaults == {NoFault} \cup [at : StoreCalls, has429 : BOOLEAN]

\* A row whose store calls were all served: the body reached its sleep
\* unless the row's own update threw.
RowServed(row) ==
  [db |-> row.db, outcome |-> row.outcome,
   slept |-> row.outcome \in {"normalized", "fallback"}]

\* The loop body for one row when the store may fail: the call named by
\* fault.at throws when the body reaches it, the writes made before it stay,
\* and the catch classifies the error.  slept tells whether the body reached
\* its sleep, the last statement of the try.
NormalizeRowFaulted(db, product, answer, fault) ==
  LET aiResult == cleanProductNameWithAI(answer.cached, answer.groq, answer.hf)
      existingParent == IF IsClassified(aiResult)
                        THEN findParentProduct(db, aiResult.brand, aiResult.model)
                        ELSE {}
      u == [threw |-> TRUE, has429 |-> fault.has429]
  IN IF fault.at = "upsertProduct" /\ IsClassified(aiResult) /\ existingParent = {}
     THEN [db |-> db, outcome |-> Outcome(u, "normalized"), slept |-> FALSE]
     ELSE IF fault.at = "insertVariant" /\ IsClassified(aiResult)
     THEN [db |-> AttachInterrupted(db, product, aiResult, existingParent, "parent"),
           outcome |-> Outcome(u, "normalized"), slept |-> FALSE]
     ELSE IF fault.at = "updateProductByCloverById"
     THEN [db |-> IF IsClassified(aiResult)
                  THEN AttachInterrupted(db, product, aiResult, existingParent, "stock")
                  ELSE db,
           outcome |-> Outcome(u, "fallback"), slept |-> FALSE]
     ELSE RowServed(NormalizeRow(db, product, answer))

\* for (const product of unnormalized) with a store that may fail: steps
\* lists, in order, the calls of the classifier and the sleeps of the run,
\* outcomes what became of each row the loop reached.
RECURSIVE NormalizeLoopFaulted(_, _, _, _, _, _, _, _)
RECURSIVE AfterRow(_, _, _, _, _, _, _, _)
NormalizeLoopFaulted(db, rows, answers, faults, k, result, steps, outcomes) ==
  IF k > Len(rows)
  THEN [db |-> db, result |-> result, steps |-> steps, outcomes |-> outcomes]
  ELSE AfterRow(NormalizeRowFaulted(db, rows[k], answers[k], faults[k]),
                rows, answers, faults, k, result, steps, outcomes)

\* What follows the body of row k: the break on a rate-limit error, or the
\* counting of the outcome and the next row.
AfterRow(row, rows, answers, faults, k, result, steps, outcomes) ==
  IF row.outcome = "rateLimited"
  THEN [db |-> row.db, result |-> [result EXCEPT !.rateLimited = TRUE],
        steps |-> steps \o <<"classify">>,
        outcomes |-> Append(outcomes, row.outcome)]
  ELSE NormalizeLoopFaulted(row.db, rows, answers, faults, k + 1,
         [result EXCEPT
            !.normalized = @ + (IF row.outcome = "normalized" THEN 1 ELSE 0),
            !.synced = @ + (IF row.outcome = "fallback" THEN 1 ELSE 0),
            !.errors = @ + (IF row.outcome = "error" THEN 1 ELSE 0)],
         steps \o <<"classify">> \o (IF row.slept THEN <<"sleep">> ELSE << >>),
         Append(outcomes, row.outcome))

\* normalizeUnnormalizedProducts over a store that may fail: faults[k] is
\* what the store does to the calls of row k.
normalizeWithFaults(db, rows, answers, faults) ==
  NormalizeLoopFaulted(db, rows, answers, faults, 1,
    [total |-> Len(rows), synced |-> 0, normalized |-> 0, errors |-> 0,
     rateLimited |-> FALSE], << >>, << >>)

\* ---------------------------------------------------------- catalog actions
\* normalizeUnnormalizedProducts(batchSize): the largest batch size of a run.
MaxBatch == 2

CatDb == [products |-> products, variants |-> variants]

CatCall(op, db, result) ==
  /\ products' = db.products
  /\ variants' = db.variants
  /\ catLast' = [op |-> op, result |-> result]
  /\ UNCHANGED cartVars
  /\ UNCHANGED <<calls, cacheVars>>

SyncCall(feed, scenario) ==
  LET r == syncAllProductsFromClover(CatDb, feed, scenario)
  IN CatCall("sync", r.db, r.result)

NormalizeCall(rows, answers) ==
  LET r == normalizeUnnormalizedProducts(CatDb, rows, answers)
  IN CatCall("normalize", r.db, r.result)

WebhookCall(body) ==
  LET r == WebhookPOST(CatDb, body)
  IN CatCall(body.type, r.db, r.response.success)

\* The fetch of a sync of the catalog job: Clover answers every request.
Answering(feed) ==
  [verified |-> TRUE, pages |-> [k \in 1..NumPages(feed) |-> <<"ok">>], fallback |-> <<"ok">>]

Sync == \E feed \in Feeds : SyncCall(feed, Answering(feed))

\* What the classifications of a batch may meet, row by row from row k on.
RECURSIVE AnswersFrom(_, _)
AnswersFrom(rows, k) ==
  IF k > Len(rows) THEN {<<>>}
  ELSE {<<answer>> \o rest : answer \in ProviderAnswers(rows[k].raw_name),
                             rest \in AnswersFrom(rows, k + 1)}

ValidAnswers(rows) == AnswersFrom(rows, 1)

\* The batches a run may be handed, over the batch sizes 1..MaxBatch.
Batches(db) == UNION {getUnnormalizedProducts(db, batchSize) : batchSize \in 1..MaxBatch}

Normalize ==
  \E rows \in Batches(CatDb) :
    \E answers \in ValidAnswers(rows) : NormalizeCall(rows, answers)

\* The events Clover may send.
WebhookBodies ==
  [type : EventTypes, itemId : CloverIds \cup {NULL}]
  \cup [type : EventTypes, itemId : CloverIds \cup {NULL}, stockCount : 0..(MaxStock + 1)]

\* The events between the catalog job's runs: stock updates and deletions
\* of items.
CatalogEvents ==
  [type : {"INVENTORY_UPDATE"}, itemId : CloverIds, stockCount : 0..MaxStock]
  \cup [type : {"ITEM_DELETE"}, itemId : CloverIds]

Webhook == \E body \in CatalogEvents : WebhookCall(body)

CatNext ==
  \/ Sync
  \/ Normalize
  \/ Webhook

\* ------------------------------------------------------------ cart actions
Quantities ==
  {Num(n) : n \in 0..(MAX_ITEM_QUANTITY + 1)} \cup {[n |-> 1, frac |-> TRUE]}

CartDb == [carts |-> carts, items |-> items]

CartIds == {c.id : c \in Range(carts)}

ItemIds == {i.id : i \in items}

\* Which of its four cases a getOrCreateCart call is in.
Branch(db, userId, sessionId) ==
  LET userFound == userId # NULL /\ Len(UserCarts(db, userId)) > 0
      sessionFound == sessionId # NULL /\ Len(SessionCarts(db, sessionId)) > 0
  IN IF userId # NULL /\ userFound /\ sessionFound THEN "merge"
     ELSE IF userId # NULL /\ sessionFound THEN "rehome"
     ELSE IF userFound \/ (userId = NULL /\ sessionFound) THEN "found"
     ELSE "create"

\* A call: the tables become the handler's, and cartLast records what the
\* caller saw (the thrown error if any, and the cart a getOrCreateCart returned).
CartCall(op, branch, r, ret) ==
  /\ carts' = r.db.carts
  /\ items' = r.db.items
  /\ cartLast' = [op |-> op, branch |-> branch, err |-> r.err, ret |-> ret]
  /\ UNCHANGED catVars
  /\ UNCHANGED <<calls, cacheVars>>

GetOrCreateCartCall(userId, sessionId, order) ==
  LET r == getOrCreateCart(CartDb, userId, sessionId, order)
  IN /\ userId # NULL \/ sessionId # NULL
     /\ Len(r.db.carts) <= MaxCarts
     /\ CartCall("getOrCreateCart", Branch(CartDb, userId, sessionId), r, r.ret)

\* A getOrCreateCart call whose lookups gave no row.
CreateCartCall(userId, sessionId) ==
  LET r == CreateCart(CartDb, userId, sessionId)
      owned == IF userId # NULL THEN UserCarts(CartDb, userId)
               ELSE SessionCarts(CartDb, sessionId)
      cap == IF userId # NULL THEN MAX_CARTS_PER_USER ELSE MAX_SESSION_CARTS
  IN /\ userId # NULL \/ sessionId # NULL
     /\ Len(r.db.carts) <= MaxCarts
     /\ CartCall("getOrCreateCart",
                 IF Len(owned) >= cap THEN "evict" ELSE "create", r, r.ret)

AddItemToCartCall(cartId, productId, quantity) ==
  CartCall("addItemToCart", NONE, addItemToCart(CartDb, cartId, productId, quantity), NULL)

UpdateCartItemQuantityCall(cartId, itemId, quantity) ==
  CartCall("updateCartItemQuantity", NONE,
           updateCartItemQuantity(CartDb, cartId, itemId, quantity), NULL)

RemoveCartItemCall(cartId, itemId) ==
  CartCall("removeCartItem", NONE, removeCartItem(CartDb, cartId, itemId), NULL)

ClearCartCall(cartId) ==
  CartCall("clearCart", NONE, clearCart(CartDb, cartId), NULL)

GetOrCreateCart ==
  \E userId \in Users \cup {NULL}, sessionId \in Sessions \cup {NULL} :
    \E order \in MergeOrders(CartDb, userId, sessionId) :
      GetOrCreateCartCall(userId, sessionId, order)

AddItemToCart ==
  \E cartId \in CartIds, productId \in ProductIds, quantity \in Quantities :
    AddItemToCartCall(cartId, productId, quantity)

UpdateCartItemQuantity ==
  \E cartId \in CartIds, itemId \in ItemIds, quantity \in Quantities :
    UpdateCartItemQuantityCall(cartId, itemId, quantity)

RemoveCartItem ==
  \E cartId \in CartIds, itemId \in ItemIds : RemoveCartItemCall(cartId, itemId)

ClearCart == \E cartId \in CartIds : ClearCartCall(cartId)

CartNext ==
  \/ GetOrCreateCart
  \/ AddItemToCart
  \/ UpdateCartItemQuantity
  \/ RemoveCartItem
  \/ ClearCart

\* The requests that may be in flight at the same time, and a request that
\* is not in a handler.
Requests == {"r1", "r2"}
Idle == [pc |-> "idle"]

NoCall == [op |-> NONE, branch |-> NONE, err |-> NONE, ret |-> NULL]

NoCatCall == [op |-> NONE, result |-> NULL]

Init ==
  /\ carts = <<>>
  /\ items = {}
  /\ cartLast = NoCall
  /\ products = {}
  /\ variants = {}
  /\ catLast = NoCatCall
  /\ calls = [r \in Requests |-> Idle]
  /\ aiImprovementCache = {}
  /\ dateNow = 0

SpecCart == Init /\ [][CartNext]_vars

SpecCatalog == Init /\ [][CatNext]_vars

\* The feed alone: syncs whose fetch meets any answers, and every event.
\* Upstream items may also carry a price of 0.
UpstreamFeeds ==
  UNION {[S -> [price : Prices \cup {0}, stockCount : 0..MaxStock]] :
           S \in SUBSET CloverIds}

SyncAny ==
  \E feed \in UpstreamFeeds :
    \E scenario \in FetchScenarios(feed) : SyncCall(feed, scenario)

WebhookAny == \E body \in WebhookBodies : WebhookCall(body)

FeedNext ==
  \/ SyncAny
  \/ WebhookAny

SpecFeed == Init /\ [][FeedNext]_vars

\* The catalog with stock recalculation: syncs, normalization runs, and
\* updateParentStock called on a products row as recalc-all-parents does for
\* each Parent; catLast keeps the id and the stock the row had.
StockOf(db, id) == SumStock({p \in db.products : p.id = id})

UpdateParentStockCall(parentId) ==
  CatCall("updateParentStock", updateParentStock(CatDb, parentId),
          [parentId |-> parentId, before |-> StockOf(CatDb, parentId)])

RecalcParent ==
  \E parent \in {p \in products : p.is_parent} : UpdateParentStockCall(parent.id)

RecalcNext ==
  \/ Sync
  \/ Normalize
  \/ RecalcParent

SpecRecalc == Init /\ [][RecalcNext]_vars

\* ---------------------------------------------- normalization, two runs at once
\* A run of normalizeUnnormalizedProducts working on one row of its batch
\* (the scheduled job and the bulk-normalize script may run together): the
\* classification and the Parent lookup are one step, the writes that
\* follow the lookup another.
NormalizeRun(product, answer) ==
  [pc |-> "findParent", op |-> "normalize", product |-> product, answer |-> answer,
   existingParent |-> {}]

NormalizeRowStep(db, c) ==
  LET aiResult == cleanProductNameWithAI(c.answer.cached, c.answer.groq, c.answer.hf)
  IN IF c.pc = "findParent"
     THEN IF IsClassified(aiResult)
          THEN [db |-> db,
                call |-> [c EXCEPT !.pc = "attach",
                                   !.existingParent =
                                      findParentProduct(db, aiResult.brand, aiResult.model)]]
          ELSE [db |-> NormalizeRow(db, c.product, c.answer).db,
                call |-> [c EXCEPT !.pc = "done"]]
     ELSE [db |-> AttachToParent(db, c.product, aiResult, c.existingParent).db,
           call |-> [c EXCEPT !.pc = "done"]]

\* A run reads its batch and takes a row of it.
NormalizeBegin ==
  \E r \in Requests :
    \E rows \in {b \in getUnnormalizedProducts(CatDb, 1) : Len(b) = 1} :
      \E answer \in ProviderAnswers(rows[1].raw_name) :
        /\ calls[r].pc = "idle"
        /\ calls' = [calls EXCEPT ![r] = NormalizeRun(rows[1], answer)]
        /\ UNCHANGED <<cartVars, catVars, cacheVars>>

NormalizeStep ==
  \E r \in Requests :
    /\ calls[r].pc \in {"findParent", "attach"}
    /\ LET s == NormalizeRowStep(CatDb, calls[r])
       IN /\ products' = s.db.products
          /\ variants' = s.db.variants
          /\ calls' = [calls EXCEPT ![r] = s.call]
    /\ UNCHANGED <<catLast, cartVars, cacheVars>>

\* The raw rows are synced before the runs start.
SyncFirst ==
  /\ \A r \in Requests : calls[r].pc = "idle"
  /\ Sync

NormalizeRaceNext ==
  \/ SyncFirst
  \/ NormalizeBegin
  \/ NormalizeStep

SpecNormalizeRace == Init /\ [][NormalizeRaceNext]_vars

\* ------------------------------------------------ normalization, interrupted
\* A run that ends inside the loop body of a classified row; catLast keeps
\* the row, the classifier's answer, the await reached and the tables as
\* they were when the row's turn came.
InterruptPoints == {"parent", "variant", "stock"}

\* Groq answering a name with a confident result, one per reading of the
\* name.
Confident(rawName) ==
  {[cached |-> Failure, groq |-> Parsed("Nike", model, SizeIn(rawName), "high"),
    hf |-> Failure] : model \in ModelsIn(rawName)}

\* A run of batch size 1 that classifies its row.
NormalizeOne ==
  \E rows \in {b \in getUnnormalizedProducts(CatDb, 1) : Len(b) = 1} :
    \E answer \in Confident(rows[1].raw_name) : NormalizeCall(rows, <<answer>>)

NormalizeInterrupted ==
  \E rows \in {b \in getUnnormalizedProducts(CatDb, 1) : Len(b) = 1} :
    \E answer \in Confident(rows[1].raw_name), point \in InterruptPoints :
      LET aiResult == cleanProductNameWithAI(answer.cached, answer.groq, answer.hf)
      IN /\ IsClassified(aiResult)
         /\ CatCall("interrupted",
                    AttachInterrupted(CatDb, rows[1], aiResult,
                      findParentProduct(CatDb, aiResult.brand, aiResult.model), point),
                    [product |-> rows[1], answer |-> answer, point |-> point,
                     before |-> CatDb])

InterruptNext ==
  \/ Sync
  \/ NormalizeOne
  \/ NormalizeInterrupted

SpecInterrupt == Init /\ [][InterruptNext]_vars

\* The classifier answering a name with a complete, confident result.
Classified(rawName) ==
  [cached |-> Failure, groq |-> Parsed("Nike", "Dunk", SizeIn(rawName), "high"),
   hf |-> Failure]

\* ------------------------------------------------- classifier's validation
\* What a provider may put in the fields parseAIResponse validates: a brand
\* or none, a model that starts with the brand in one case or the other or
\* does not, any product type, and a condition or none.
RawBrands == {"Nike", ""}
RawModels == {"Dunk", "Nike Dunk", "NIKE  Dunk", "Nikes"}
RawProductTypes == {"sneaker", "apparel", "accessory", "other", "shoe"}
RawConditions == {NULL, "new", "used", "ds", "deadstock", "worn"}

RawParsed(brand, model, productType, condition) ==
  [kind |-> "json",
   data |-> [ok |-> TRUE, cleanedName |-> "Nike Dunk", brand |-> brand,
             model |-> model, productType |-> productType, size |-> "9",
             colorway |-> NULL, condition |-> condition, variantNumber |-> NULL,
             confidence |-> "high"]]

RawAnswers ==
  {RawParsed(brand, model, productType, condition) :
     brand \in RawBrands, model \in RawModels,
     productType \in RawProductTypes, condition \in RawConditions}

\* One call of cleanProductNameWithAI on a cache miss, answered by Groq or,
\* Groq failing, by Hugging Face; catLast keeps the answer and the value
\* returned.
ClassifyRawCall(groq, hf) ==
  /\ catLast' = [op |-> "classifyRaw",
                 result |-> [raw |-> IF groq.kind = "json" THEN groq.data ELSE hf.data,
                             value |-> cleanProductNameWithAI(Failure, groq, hf)]]
  /\ UNCHANGED <<products, variants, cartVars, calls, cacheVars>>

ClassifyRaw ==
  \/ \E groq \in RawAnswers : ClassifyRawCall(groq, Failure)
  \/ \E hf \in RawAnswers : ClassifyRawCall(RateLimited429, hf)

SpecValidate == Init /\ [][ClassifyRaw]_vars

\* ------------------------------------------------------- classifier cache
\* Product names as sequences of characters: a letter in either case, the
\* whitespace characters space and tab, and a punctuation mark.
Whitespace == {" ", "\t"}
WordChars == {"a"}

\* String.prototype.toLowerCase
toLowerCase(name) == [i \in DOMAIN name |-> IF name[i] = "A" THEN "a" ELSE name[i]]

\* String.prototype.trim
RECURSIVE trim(_)
trim(name) ==
  IF name = << >> THEN name
  ELSE IF name[1] \in Whitespace THEN trim(Tail(name))
  ELSE IF name[Len(name)] \in Whitespace THEN trim(SubSeq(name, 1, Len(name) - 1))
  ELSE name

\* replace(/\s+/g, ' '): every run of whitespace becomes one space.
RECURSIVE CollapseWhitespace(_)
CollapseWhitespace(name) ==
  IF name = << >> THEN name
  ELSE IF name[1] \in Whitespace
  THEN IF Len(name) > 1 /\ name[2] \in Whitespace
       THEN CollapseWhitespace(Tail(name))
       ELSE <<" ">> \o CollapseWhitespace(Tail(name))
  ELSE <<name[1]>> \o CollapseWhitespace(Tail(name))

\* replace(/[^\w\s]/g, '')
RemovePunctuation(name) ==
  SelectSeq(name, LAMBDA ch : ch \in WordChars \cup Whitespace)

\* normalizeProductName: lower case, trim, collapse whitespace, then remove
\* what is neither a word character nor whitespace.
normalizeProductName(name) ==
  RemovePunctuation(CollapseWhitespace(trim(toLowerCase(name))))

\* AI_IMPROVEMENT_CACHE_DURATION: 30 days, scaled to two ticks of the clock.
AI_IMPROVEMENT_CACHE_DURATION == 2

\* The furthest the clock is taken.
MaxNow == 2

\* getCachedHFImprovement(name) at time t: the entry under the normalized
\* name when its age is below the duration; an older entry is deleted.
\* cached is what cleanProductNameWithAI reads: the stored JSON, or a miss.
getCachedHFImprovementAt(cache, t, name) ==
  LET hit == {e \in cache : e.key = normalizeProductName(name)}
      live == {e \in hit : t - e.timestamp < AI_IMPROVEMENT_CACHE_DURATION}
  IN IF live # {}
     THEN [cache |-> cache,
           cached |-> [kind |-> "json", data |-> (CHOOSE e \in live : TRUE).improvedName]]
     ELSE [cache |-> cache \ hit, cached |-> Failure]

\* Faulty variant: the entry is stored under the name as given.
setCachedHFImprovementRawKey(cache, t, name, improvedName) ==
  {e \in cache : e.key # name}
  \cup {[key |-> name, improvedName |-> improvedName, timestamp |-> t]}

\* setCachedHFImprovement(name, improvedName) at time t: Map.set under the
\* normalized name.
setCachedHFImprovementAt(cache, t, name, improvedName) ==
  {e \in cache : e.key # normalizeProductName(name)}
  \cup {[key |-> normalizeProductName(name), improvedName |-> improvedName,
         timestamp |-> t]}

\* cleanProductNameWithAI(originalName) at time t over the cache: value is
\* what it returns, providerCalled whether Groq or Hugging Face was asked.
cleanProductNameWithAIAt(cache, t, originalName, groq, hf) ==
  LET get == getCachedHFImprovementAt(cache, t, originalName)
      value == cleanProductNameWithAI(get.cached, groq, hf)
      writes == CacheWrites(originalName, get.cached, groq, hf)
  IN [cache |-> IF writes = {} THEN get.cache
                ELSE setCachedHFImprovementAt(get.cache, t, originalName, value),
      value |-> value,
      providerCalled |-> ~getCachedHFImprovement(get.cached).ok]

\* The names the classifier is asked about: three spellings of one name, two
\* of a second, and one whose punctuation stands between two spaces.
ProductNames ==
  {<<"a">>, <<"A", " ">>, <<"a", "-">>,
   <<"a", " ", "a">>, <<"A", "\t", " ", "a">>,
   <<"a", " ", "-", " ", "a">>}

\* What the providers answer a call: Groq with one reading, with the other
\* or with a failure; Hugging Face, asked after Groq's failure, with a
\* failure.
GroqAnswers ==
  {Parsed("Nike", "Dunk", "9", "high"), Parsed("Nike", "AF1", "9", "high"), Failure}
HFAnswers == {Failure}

ClassifyCachedCall(originalName, groq, hf) ==
  LET r == cleanProductNameWithAIAt(aiImprovementCache, dateNow, originalName, groq, hf)
  IN /\ aiImprovementCache' = r.cache
     /\ catLast' = [op |-> "classifyCached",
                    result |-> [respelled |-> originalName # normalizeProductName(originalName),
                                value |-> r.value,
                                providerCalled |-> r.providerCalled]]
     /\ UNCHANGED <<products, variants, cartVars, calls, dateNow>>

ClassifyCached ==
  \E originalName \in ProductNames, groq \in GroqAnswers, hf \in HFAnswers :
    ClassifyCachedCall(originalName, groq, hf)

\* Time passes between calls.
Tick ==
  /\ dateNow < MaxNow
  /\ dateNow' = dateNow + 1
  /\ UNCHANGED <<cartVars, catVars, calls, aiImprovementCache>>

CacheNext ==
  \/ ClassifyCached
  \/ Tick

SpecCache == Init /\ [][CacheNext]_vars

\* ------------------------------------------------- upstream fetch, step by step
\* What Clover answers to one attempt of a request: a page of limit items
\* ("full"), a shorter page ("short"), a status other than 2xx, 429, 502 and
\* 503 or a network error ("error"), or 429/502/503 ("retryable") with its
\* Retry-After header: absent, a number of seconds, or an HTTP date.
RetryAfterHeaders ==
  {[kind |-> "absent", n |-> 0], [kind |-> "date", n |-> 0],
   [kind |-> "seconds", n |-> 0], [kind |-> "seconds", n |-> 3]}

UpstreamAnswers ==
  {[status |-> s, retryAfter |-> [kind |-> "absent", n |-> 0]] :
     s \in {"full", "short", "error"}}
  \cup {[status |-> "retryable", retryAfter |-> h] : h \in RetryAfterHeaders}

\* Math.min(1000 * Math.pow(2, retryCount), 8000)
Backoff(retryCount) ==
  IF 1000 * 2 ^ retryCount < 8000 THEN 1000 * 2 ^ retryCount ELSE 8000

\* waitTime of fetchCloverInventoryPage: 1000 by default; a Retry-After that
\* parseInt reads as a number gives that many seconds, one it reads as NaN
\* leaves the default; without the header the wait is the backoff.
WaitTime(retryAfter, retryCount) ==
  IF retryAfter.kind = "seconds" THEN retryAfter.n * 1000
  ELSE IF retryAfter.kind = "date" THEN 1000
  ELSE Backoff(retryCount)

\* A fetchCloverInventoryInternal call past the verification of the
\* connection.  attempts counts the attempts of the request in hand, wait
\* and header are the base wait and the Retry-After of its last retry, at
\* retryCount waitedAt.
FetchCall ==
  [pc |-> "page", offset |-> 0, pageCount |-> 0, retryCount |-> 0,
   fallback |-> FALSE, fetched |-> 0, attempts |-> 0,
   wait |-> 0, waitedAt |-> 0, header |-> [kind |-> "absent", n |-> 0]]

\* Faulty variant: the retry is not bounded by maxRetries.
fetchStepRetriesForever(c, answer) ==
  IF answer.status = "retryable"
  THEN [c EXCEPT !.retryCount = IF @ < maxRetries THEN @ + 1 ELSE @,
                 !.attempts = @ + 1,
                 !.wait = WaitTime(answer.retryAfter, c.retryCount),
                 !.waitedAt = c.retryCount, !.header = answer.retryAfter]
  ELSE [c EXCEPT !.pc = "done", !.attempts = @ + 1]

\* One attempt of fetchCloverInventoryInternal's request in hand, answered
\* by answer: a retryable status is waited on and retried while retryCount <
\* maxRetries and thrown after; a thrown first page is requested again
\* without limit and offset, any other throw ends the fetch; a full page
\* moves the offset on, a short one or the page cap ends the loop.
fetchStep(c, answer) ==
  LET threw == IF ~c.fallback /\ c.pageCount = 0
               THEN [c EXCEPT !.fallback = TRUE, !.retryCount = 0, !.attempts = 0]
               ELSE [c EXCEPT !.pc = "threw", !.attempts = @ + 1]
      len == IF answer.status = "full" THEN pageLimit ELSE 0
  IN IF answer.status = "retryable"
     THEN IF c.retryCount < maxRetries
          THEN [c EXCEPT !.retryCount = @ + 1, !.attempts = @ + 1,
                         !.wait = WaitTime(answer.retryAfter, c.retryCount),
                         !.waitedAt = c.retryCount, !.header = answer.retryAfter]
          ELSE threw
     ELSE IF answer.status = "error"
     THEN threw
     ELSE IF c.fallback
     THEN [c EXCEPT !.pc = "done", !.fetched = len, !.attempts = @ + 1]
     ELSE IF answer.status = "short"
     THEN [c EXCEPT !.pc = "done", !.fetched = @ + len, !.attempts = @ + 1]
     ELSE [c EXCEPT !.pc = IF c.pageCount + 1 < maxPages THEN "page" ELSE "done",
                    !.fetched = @ + len, !.offset = @ + pageLimit,
                    !.pageCount = @ + 1, !.retryCount = 0, !.attempts = 0]

\* runFullSyncJob makes one fetch at a time.
FetchBegin ==
  \E r \in {"r1"} :
    /\ calls[r].pc = "idle"
    /\ calls' = [calls EXCEPT ![r] = FetchCall]
    /\ UNCHANGED <<cartVars, catVars, cacheVars>>

FetchAttempt(r) ==
  /\ calls[r].pc = "page"
  /\ \E answer \in UpstreamAnswers :
       calls' = [calls EXCEPT ![r] = fetchStep(calls[r], answer)]
  /\ UNCHANGED <<cartVars, catVars, cacheVars>>

FetchStep == \E r \in Requests : FetchAttempt(r)

FetchNext ==
  \/ FetchBegin
  \/ FetchStep

SpecFetch == Init /\ [][FetchNext]_vars

\* Every attempt of a request is answered, by a response or by an error of
\* the transport, and every wait ends: a fetch in flight takes its next step.
SpecFetchLive == SpecFetch /\ \A r \in Requests : WF_vars(FetchAttempt(r))

\* The normalization job over a store that may fail: a run takes the batch
\* getUnnormalizedProducts returns, each row meets a classification and the
\* store either serves the row's calls or fails one of them.  catLast keeps
\* the items of the batch, what became of each and the run's result.
Unparsed == [cached |-> Failure, groq |-> Failure, hf |-> Failure]

RowAnswers(rawName) == {Classified(rawName), Unparsed}

RECURSIVE RowAnswersFrom(_, _)
RowAnswersFrom(rows, k) ==
  IF k > Len(rows) THEN {<< >>}
  ELSE {<<a>> \o rest : a \in RowAnswers(rows[k].raw_name),
                        rest \in RowAnswersFrom(rows, k + 1)}

\* The store fails at most one row of a batch.
FaultsFor(rows) ==
  {faults \in [1..Len(rows) -> StoreFaults] :
     Cardinality({k \in 1..Len(rows) : faults[k] # NoFault}) <= 1}

NormalizeFaultedCall(rows, answers, faults) ==
  LET r == normalizeWithFaults(CatDb, rows, answers, faults)
  IN CatCall("normalizeFaulted", r.db,
             [ids |-> [k \in 1..Len(rows) |-> rows[k].clover_id],
              result |-> r.result, steps |-> r.steps, outcomes |-> r.outcomes])

NormalizeFaulted ==
  \E rows \in Batches(CatDb) :
    \E answers \in RowAnswersFrom(rows, 1) :
      \E faults \in FaultsFor(rows) : NormalizeFaultedCall(rows, answers, faults)

FaultNext ==
  \/ Sync
  \/ NormalizeFaulted

SpecFaults == Init /\ [][FaultNext]_vars

\* ------------------------------------------------------ bulk normalization
\* normalizeUnnormalizedProducts with its outer catch: when the query for
\* the batch throws, the result keeps total 0 and gets one error.
normalizeBatch(db, query, answers, faults) ==
  IF query.threw
  THEN [db |-> db,
        result |-> [total |-> 0, synced |-> 0, normalized |-> 0, errors |-> 1,
                    rateLimited |-> FALSE],
        steps |-> << >>, outcomes |-> << >>]
  ELSE normalizeWithFaults(db, query.rows, answers, faults)

\* main of the bulk-normalize script: batch after batch until a batch
\* reports total = 0.  The batch size of 50 is scaled to MaxBatch.
BreakOrGoOn(c, r) ==
  [db |-> r.db,
   call |-> [c EXCEPT !.pc = IF r.result.total = 0 THEN "exited" ELSE "batch",
                      !.last = r.result]]

bulkStep(db, c, query, answers, faults) ==
  BreakOrGoOn(c, normalizeBatch(db, query, answers, faults))

BulkBegin ==
  \E r \in {"r1"} :
    /\ calls[r].pc = "idle"
    /\ calls' = [calls EXCEPT ![r] =
                   [pc |-> "batch",
                    last |-> [total |-> 0, synced |-> 0, normalized |-> 0,
                              errors |-> 0, rateLimited |-> FALSE]]]
    /\ UNCHANGED <<cartVars, catVars, cacheVars>>

BulkCommit(r, s) ==
  /\ products' = s.db.products
  /\ variants' = s.db.variants
  /\ calls' = [calls EXCEPT ![r] = s.call]
  /\ UNCHANGED <<catLast, cartVars, cacheVars>>

BulkApply(r, query, answers, faults) ==
  BulkCommit(r, bulkStep(CatDb, calls[r], query, answers, faults))

\* One batch: the query for the batch throws, or returns its rows and each
\* row meets a classification and a store that serves or fails its calls.
BulkBatch(r) ==
  /\ calls[r].pc = "batch"
  /\ \/ BulkApply(r, [threw |-> TRUE, rows |-> << >>], << >>, << >>)
     \/ \E rows \in getUnnormalizedProducts(CatDb, MaxBatch) :
          \E answers \in RowAnswersFrom(rows, 1) :
            \E faults \in FaultsFor(rows) :
              BulkApply(r, [threw |-> FALSE, rows |-> rows], answers, faults)

BulkStep == \E r \in Requests : BulkBatch(r)

\* The script runs after the sync and no sync runs while it does.
BulkNext ==
  \/ SyncFirst
  \/ BulkBegin
  \/ BulkStep

SpecBulk == Init /\ [][BulkNext]_vars

\* The script is not stopped: a batch in hand is run.
SpecBulkLive == SpecBulk /\ \A r \in Requests : WF_vars(BulkBatch(r))

\* The classifier alone: one call of cleanProductNameWithAI on an item's
\* name, with what the cache holds and what each provider answers; catLast
\* keeps the call and the value returned.
ClassifierResponses(rawName) ==
  Malformed(rawName)
  \cup {RateLimited429, Failure,
         Parsed("Nike", "Dunk", SizeIn(rawName), "high"),
         Parsed("Nike", "Dunk", SizeIn(rawName), "low")}

CacheStates(rawName) ==
  {Failure, Unparsable, Parsed("Nike", "Dunk", SizeIn(rawName), "high")}

ClassifyCall(originalName, cached, groq, hf) ==
  /\ catLast' = [op |-> "classify",
                 result |-> [originalName |-> originalName, cached |-> cached,
                             groq |-> groq, hf |-> hf,
                             value |-> cleanProductNameWithAI(cached, groq, hf),
                             fallback |-> FallbackCalled(cached, groq),
                             stored |-> CacheWrites(originalName, cached, groq, hf)]]
  /\ UNCHANGED <<products, variants>>
  /\ UNCHANGED cartVars
  /\ UNCHANGED <<calls, cacheVars>>

Classify ==
  \E id \in CloverIds :
    \E cached \in CacheStates(RawName(id)) :
      \E groq, hf \in ClassifierResponses(RawName(id)) :
        ClassifyCall(RawName(id), cached, groq, hf)

SpecClassify == Init /\ [][Classify]_vars

\* ------------------------------------------------------------ cart routes
\* Faulty variant: an anonymous caller may use any ownerless cart.
isAuthorizedAnySession(cart, userId, sessionId) ==
  \/ userId # NULL /\ cart.userId = userId
  \/ userId = NULL /\ cart.userId = NULL

\* Faulty variant: the anonymous case does not test !cart.userId.
isAuthorizedIgnoresOwner(cart, userId, sessionId) ==
  \/ userId # NULL /\ cart.userId = userId
  \/ userId = NULL /\ cart.sessionId = sessionId

\* (userId && cart.userId === userId) ||
\* (!userId && cart.sessionId === sessionId && !cart.userId)
isAuthorized(cart, userId, sessionId) ==
  \/ userId # NULL /\ cart.userId = userId
  \/ userId = NULL /\ cart.sessionId = sessionId /\ cart.userId = NULL

\* What a route answers: the tables after it, the HTTP status, the error
\* the service threw if any, and whether the service was called.
RouteResult(db, status, err, invoked) ==
  [db |-> db, status |-> status, err |-> err, invoked |-> invoked]

\* The start of every mutating route: 404 without the cart, 403 when the
\* caller may not use it, "ok" otherwise.
Gate(db, userId, sessionId, cartId) ==
  LET cart == getCart(db, cartId)
  IN IF cart = {} THEN "404"
     ELSE IF ~isAuthorized(CHOOSE c \in cart : TRUE, userId, sessionId) THEN "403"
     ELSE "ok"

\* The service ran: its tables, and 500 when it threw.
Served(r, success) ==
  RouteResult(r.db, IF r.err = NONE THEN success ELSE "500", r.err, TRUE)

\* POST /cart/{cartId}/items; productId is NULL when the body has none.
POSTItems(db, userId, sessionId, cartId, productId, quantity) ==
  LET gate == Gate(db, userId, sessionId, cartId)
  IN IF gate # "ok" THEN RouteResult(db, gate, NONE, FALSE)
     ELSE IF productId = NULL THEN RouteResult(db, "400", NONE, FALSE)
     ELSE Served(addItemToCart(db, cartId, productId, quantity), "201")

\* PUT /cart/{cartId}/items/{itemId}
PUTItem(db, userId, sessionId, cartId, itemId, quantity) ==
  LET gate == Gate(db, userId, sessionId, cartId)
  IN IF gate # "ok" THEN RouteResult(db, gate, NONE, FALSE)
     ELSE IF quantity.n < 1 THEN RouteResult(db, "400", NONE, FALSE)
     ELSE Served(updateCartItemQuantity(db, cartId, itemId, quantity), "200")

\* DELETE /cart/{cartId}/items/{itemId}
DELETEItem(db, userId, sessionId, cartId, itemId) ==
  LET gate == Gate(db, userId, sessionId, cartId)
  IN IF gate # "ok" THEN RouteResult(db, gate, NONE, FALSE)
     ELSE Served(removeCartItem(db, cartId, itemId), "200")

\* DELETE /cart/{cartId}
DELETECart(db, userId, sessionId, cartId) ==
  LET gate == Gate(db, userId, sessionId, cartId)
  IN IF gate # "ok" THEN RouteResult(db, gate, NONE, FALSE)
     ELSE Served(clearCart(db, cartId), "200")

\* GET /api/cart: the cart named by the cartId parameter when it exists and
\* the caller may use it, otherwise getOrCreateCart for the caller.
GETCart(db, userId, sessionId, cartIdParam, order) ==
  LET existingCart == getCart(db, cartIdParam)
  IN IF existingCart # {} /\ isAuthorized(CHOOSE c \in existingCart : TRUE, userId, sessionId)
     THEN Result(db, NONE, cartIdParam)
     ELSE getOrCreateCart(db, userId, sessionId, order)

\* The callers: getUserIdFromRequest() and the sessionId cookie, either of
\* which may be absent; the cart and item ids of the path, one of each
\* naming no row.
Callers == (Users \cup {NULL}) \X (Sessions \cup {NULL})
PathCartIds == CartIds \cup {NewCartId(CartDb)}
PathItemIds == ItemIds \cup {<<NewCartId(CartDb), "A", 1>>}

\* The productId a body may carry, NULL for none.
BodyProductIds == {"A", "B", NULL}

\* The quantities a body may carry: none that passes, the least, one too many.
BodyQuantities == {Num(0), Num(1), Num(MAX_ITEM_QUANTITY + 1)}

\* A request: the tables become the route's, and cartLast records the route
\* and the status answered.
RouteCall(op, r) ==
  /\ carts' = r.db.carts
  /\ items' = r.db.items
  /\ cartLast' = [op |-> op, branch |-> NONE, err |-> NONE, ret |-> r.status]
  /\ UNCHANGED catVars
  /\ UNCHANGED <<calls, cacheVars>>

PostItems ==
  \E caller \in Callers, cartId \in PathCartIds,
     productId \in BodyProductIds, quantity \in BodyQuantities :
    RouteCall("POST items",
              POSTItems(CartDb, caller[1], caller[2], cartId, productId, quantity))

PutItem ==
  \E caller \in Callers, cartId \in PathCartIds,
     itemId \in PathItemIds, quantity \in BodyQuantities :
    RouteCall("PUT item", PUTItem(CartDb, caller[1], caller[2], cartId, itemId, quantity))

DeleteItem ==
  \E caller \in Callers, cartId \in PathCartIds, itemId \in PathItemIds :
    RouteCall("DELETE item", DELETEItem(CartDb, caller[1], caller[2], cartId, itemId))

DeleteCart ==
  \E caller \in Callers, cartId \in PathCartIds :
    RouteCall("DELETE cart", DELETECart(CartDb, caller[1], caller[2], cartId))

RoutesNext ==
  \/ GetOrCreateCart
  \/ PostItems
  \/ PutItem
  \/ DeleteItem
  \/ DeleteCart

SpecRoutes == Init /\ [][RoutesNext]_vars

\* The cart service when a lookup of getOrCreateCart may come back empty.
CreateCartAfterEmptyLookup ==
  \E userId \in Users \cup {NULL}, sessionId \in Sessions \cup {NULL} :
    CreateCartCall(userId, sessionId)

\* One unit of the first product is put into a cart.
AddFirstProduct ==
  \E cartId \in CartIds : AddItemToCartCall(cartId, "A", Num(1))

EvictNext ==
  \/ GetOrCreateCart
  \/ AddFirstProduct
  \/ CreateCartAfterEmptyLookup

SpecEvict == Init /\ [][EvictNext]_vars

\* ------------------------------------------------- addItemToCart, step by step
\* Two requests in the same handler: each await of addItemToCart is one
\* step on the store, and the steps of the two requests interleave.  A call
\* keeps what it has read: count is cart.items.length, existing the rows its
\* select returned.
AddCall(cartId, productId, quantity) ==
  [pc |-> "getCart", op |-> "addItemToCart", cartId |-> cartId,
   productId |-> productId, quantity |-> quantity, count |-> 0, existing |-> {},
   inserted |-> FALSE, err |-> NONE]

Thrown(c, err) == [c EXCEPT !.pc = "done", !.err = err]

\* Faulty variant: the insert is conditional on no row of the product being
\* in the cart at the time of the insert.
addItemToCartStepConditional(db, c) ==
  IF c.pc = "getCart"
  THEN [db |-> db,
        call |-> IF getCart(db, c.cartId) = {} THEN Thrown(c, "Cart not found")
                 ELSE [c EXCEPT !.pc = "select",
                                !.count = Cardinality(CartItems(db, c.cartId))]]
  ELSE IF c.pc = "select"
  THEN [db |-> db,
        call |-> [c EXCEPT !.pc = "write",
                           !.existing = ExistingItems(db, c.cartId, c.productId)]]
  ELSE IF c.pc = "write"
  THEN IF c.existing # {}
       THEN LET existingItem == CHOOSE i \in c.existing :
                                  \A j \in c.existing : i.id[3] <= j.id[3]
                newQuantity == existingItem.quantity + c.quantity
                hit == {i \in db.items : i.id = existingItem.id}
            IN IF ExceedsItemCap(newQuantity)
               THEN [db |-> db,
                     call |-> Thrown(c, "Total quantity cannot exceed MAX_ITEM_QUANTITY per item")]
               ELSE [db |-> [db EXCEPT !.items = (@ \ hit)
                               \cup {[i EXCEPT !.quantity = newQuantity] : i \in hit}],
                     call |-> [c EXCEPT !.pc = "stamp",
                                        !.err = IF hit = {} THEN "Failed to update cart item"
                                                ELSE NONE]]
       ELSE IF CartIsFull(c.count)
       THEN [db |-> db,
             call |-> Thrown(c, "Cart cannot have more than MAX_CART_ITEMS items")]
       ELSE IF getCart(db, c.cartId) = {} \/ ExistingItems(db, c.cartId, c.productId) # {}
       THEN [db |-> db, call |-> Thrown(c, "Failed to add item to cart")]
       ELSE [db |-> [db EXCEPT !.items = @ \cup
                       {[id |-> NewItemId(db, c.cartId, c.productId), cartId |-> c.cartId,
                         productId |-> c.productId, quantity |-> c.quantity]}],
             call |-> [c EXCEPT !.pc = "stamp", !.inserted = TRUE]]
  ELSE [db |-> StampUpdatedAt(db, c.cartId), call |-> [c EXCEPT !.pc = "done"]]

\* One await of addItemToCart after the quantity checks: getCart; the
\* select of the product's rows; the update of the row found (the cart is
\* stamped before the update's error is thrown) or, when none was found and
\* the cart read at the start was not full, the insert, which fails only
\* when the cart row is gone; the stamp of updatedAt.
addItemToCartStep(db, c) ==
  IF c.pc = "getCart"
  THEN [db |-> db,
        call |-> IF getCart(db, c.cartId) = {} THEN Thrown(c, "Cart not found")
                 ELSE [c EXCEPT !.pc = "select",
                                !.count = Cardinality(CartItems(db, c.cartId))]]
  ELSE IF c.pc = "select"
  THEN [db |-> db,
        call |-> [c EXCEPT !.pc = "write",
                           !.existing = ExistingItems(db, c.cartId, c.productId)]]
  ELSE IF c.pc = "write"
  THEN IF c.existing # {}
       THEN LET existingItem == CHOOSE i \in c.existing :
                                  \A j \in c.existing : i.id[3] <= j.id[3]
                newQuantity == existingItem.quantity + c.quantity
                hit == {i \in db.items : i.id = existingItem.id}
            IN IF ExceedsItemCap(newQuantity)
               THEN [db |-> db,
                     call |-> Thrown(c, "Total quantity cannot exceed MAX_ITEM_QUANTITY per item")]
               ELSE [db |-> [db EXCEPT !.items = (@ \ hit)
                               \cup {[i EXCEPT !.quantity = newQuantity] : i \in hit}],
                     call |-> [c EXCEPT !.pc = "stamp",
                                        !.err = IF hit = {} THEN "Failed to update cart item"
                                                ELSE NONE]]
       ELSE IF CartIsFull(c.count)
       THEN [db |-> db,
             call |-> Thrown(c, "Cart cannot have more than MAX_CART_ITEMS items")]
       ELSE IF getCart(db, c.cartId) = {}
       THEN [db |-> db, call |-> Thrown(c, "Failed to add item to cart")]
       ELSE [db |-> [db EXCEPT !.items = @ \cup
                       {[id |-> NewItemId(db, c.cartId, c.productId), cartId |-> c.cartId,
                         productId |-> c.productId, quantity |-> c.quantity]}],
             call |-> [c EXCEPT !.pc = "stamp", !.inserted = TRUE]]
  ELSE [db |-> StampUpdatedAt(db, c.cartId), call |-> [c EXCEPT !.pc = "done"]]

\* A request enters addItemToCart, once, with a quantity that passes its
\* checks.
AddItemBegin ==
  \E r \in Requests, cartId \in CartIds, productId \in {"A", "B"},
     quantity \in 1..MAX_ITEM_QUANTITY :
    /\ calls[r].pc = "idle"
    /\ calls' = [calls EXCEPT ![r] = AddCall(cartId, productId, quantity)]
    /\ UNCHANGED <<cartVars, catVars, cacheVars>>

AddItemStep ==
  \E r \in Requests :
    /\ calls[r].pc \in {"getCart", "select", "write", "stamp"}
    /\ LET s == addItemToCartStep(CartDb, calls[r])
       IN /\ carts' = s.db.carts
          /\ items' = s.db.items
          /\ calls' = [calls EXCEPT ![r] = s.call]
    /\ UNCHANGED <<cartLast, catVars, cacheVars>>

\* A visitor's cart is there before the requests start.
OpenCart ==
  /\ \A r \in Requests : calls[r].pc = "idle"
  /\ GetOrCreateCart

AddRaceNext ==
  \/ OpenCart
  \/ AddItemBegin
  \/ AddItemStep

SpecAddRace == Init /\ [][AddRaceNext]_vars

\* ----------------------------------------------- getOrCreateCart, step by step
\* A getOrCreateCart(userId, sessionId) call of a signed-in visitor, one
\* await per step; 0 stands for a cart not found.  began is the CartItem
\* table when the call started, overlap whether another call was in flight.
GetCall(userId, sessionId, began, overlap) ==
  [pc |-> "userCarts", op |-> "getOrCreateCart", userId |-> userId,
   sessionId |-> sessionId, userCartId |-> 0, sessionCartId |-> 0,
   sessionItems |-> <<>>, userItems |-> {}, k |-> 1, err |-> NONE, ret |-> 0,
   began |-> began, overlap |-> overlap]

Returned(c, cartId) == [c EXCEPT !.pc = "done", !.ret = cartId]

\* The steps of getOrCreateCart with mergeCarts inlined: the two lookups;
\* the conversion of the session cart, or the creation of a cart; in
\* mergeCarts the two getCart reads, the loop over the session cart's items
\* as read (each updateCartItemQuantity / addItemToCart call is one step),
\* the two deletes and the final getCart.  order is the order in which the
\* store returns the session cart's items.
getOrCreateCartStep(db, c, order) ==
  IF c.pc = "userCarts"
  THEN LET existingUserCarts == UserCarts(db, c.userId)
       IN [db |-> db,
           call |-> [c EXCEPT !.pc = "sessionCarts",
                              !.userCartId = IF Len(existingUserCarts) > 0
                                             THEN existingUserCarts[1].id ELSE 0]]
  ELSE IF c.pc = "sessionCarts"
  THEN LET existingSessionCarts == SessionCarts(db, c.sessionId)
       IN [db |-> db,
           call |-> IF Len(existingSessionCarts) > 0
                    THEN [c EXCEPT !.sessionCartId = existingSessionCarts[1].id,
                                   !.pc = IF c.userCartId # 0 THEN "getSession"
                                          ELSE "convert"]
                    ELSE IF c.userCartId # 0 THEN Returned(c, c.userCartId)
                    ELSE [c EXCEPT !.pc = "create"]]
  ELSE IF c.pc = "convert"
  THEN IF getCart(db, c.sessionCartId) = {}
       THEN [db |-> db, call |-> Thrown(c, "Failed to convert session cart")]
       ELSE [db |-> RehomeCart(db, c.sessionCartId, c.userId),
             call |-> Returned(c, c.sessionCartId)]
  ELSE IF c.pc = "create"
  THEN LET r == CreateCart(db, c.userId, NULL)
       IN [db |-> r.db, call |-> Returned(c, r.ret)]
  ELSE IF c.pc = "getSession"
  THEN [db |-> db,
        call |-> [c EXCEPT !.pc = "getUser",
                           !.sessionItems = order,
                           !.err = IF getCart(db, c.sessionCartId) = {}
                                   THEN "One or both carts not found" ELSE NONE]]
  ELSE IF c.pc = "getUser"
  THEN [db |-> db,
        call |-> IF c.err # NONE \/ getCart(db, c.userCartId) = {}
                 THEN Thrown(c, "One or both carts not found")
                 ELSE [c EXCEPT !.userItems = CartItems(db, c.userCartId),
                                !.pc = IF Len(c.sessionItems) = 0 THEN "deleteCart"
                                       ELSE "loop"]]
  ELSE IF c.pc = "loop"
  THEN LET sessionItem == c.sessionItems[c.k]
           found == {i \in c.userItems : i.productId = sessionItem.productId}
           step ==
             IF found # {}
             THEN LET existingUserItem == CHOOSE i \in found : \A j \in found : i.id[3] <= j.id[3]
                  IN updateCartItemQuantity(db, c.userCartId, existingUserItem.id,
                       Num(MergedQuantity(existingUserItem.quantity, sessionItem.quantity)))
             ELSE addItemToCart(db, c.userCartId, sessionItem.productId,
                                Num(sessionItem.quantity))
       IN [db |-> step.db,
           call |-> IF step.err # NONE THEN Thrown(c, step.err)
                    ELSE [c EXCEPT !.k = @ + 1,
                                   !.pc = IF c.k = Len(c.sessionItems) THEN "deleteItems"
                                          ELSE "loop"]]
  ELSE IF c.pc = "deleteItems"
  THEN [db |-> [db EXCEPT !.items = {i \in @ : i.cartId # c.sessionCartId}],
        call |-> [c EXCEPT !.pc = "deleteCart"]]
  ELSE IF c.pc = "deleteCart"
  THEN [db |-> [db EXCEPT !.carts = SelectSeq(@, LAMBDA x : x.id # c.sessionCartId)],
        call |-> IF Len(c.sessionItems) = 0 THEN Returned(c, c.userCartId)
                 ELSE [c EXCEPT !.pc = "getMerged"]]
  ELSE [db |-> db,
        call |-> IF getCart(db, c.userCartId) = {}
                 THEN Thrown(c, "Failed to retrieve merged cart")
                 ELSE Returned(c, c.userCartId)]

\* A cart fetch of the signed-in visitor starts; useCart fires one on login
\* and one per mount, so a second may start while the first is in flight.
GetCartBegin ==
  \E r \in Requests, userId \in Users, sessionId \in Sessions :
    /\ calls[r].pc = "idle"
    /\ calls' = [calls EXCEPT ![r] =
                   GetCall(userId, sessionId, items,
                           \E o \in Requests : calls[o].pc \notin {"idle", "done"})]
    /\ UNCHANGED <<cartVars, catVars, cacheVars>>

GetCartStep ==
  \E r \in Requests :
    /\ calls[r].pc \notin {"idle", "done"}
    /\ calls[r].op = "getOrCreateCart"
    /\ \E order \in (IF calls[r].pc = "getSession"
                      THEN Orders(CartItems(CartDb, calls[r].sessionCartId))
                      ELSE {<<>>}) :
         LET s == getOrCreateCartStep(CartDb, calls[r], order)
         IN /\ carts' = s.db.carts
            /\ items' = s.db.items
            /\ calls' = [calls EXCEPT ![r] = s.call]
    /\ UNCHANGED <<cartLast, catVars, cacheVars>>

\* The visitor's carts are filled before the fetches start.
FillCart ==
  /\ \A r \in Requests : calls[r].pc = "idle"
  /\ \E cartId \in CartIds, productId \in {"A", "B"} :
       AddItemToCartCall(cartId, productId, Num(1))

MergeRaceNext ==
  \/ OpenCart
  \/ FillCart
  \/ GetCartBegin
  \/ GetCartStep

SpecMergeRace == Init /\ [][MergeRaceNext]_vars

\* ===================================================================== claims
\* Each claim about a handler is stated over every reachable state and every
\* input of the handler: r is what the handler returns and leaves in the
\* store when called in the current state.

\* The quantity a cart holds of a product in an item table, 0 when none.
Qty(its, cartId, productId) ==
  SumQuantity({i \in its : i.cartId = cartId /\ i.productId = productId})

\* The two carts a getOrCreateCart(userId, sessionId) call in its merge case
\* works on: the user's most recently updated cart and the session's.
UserCartOf(userId) == UserCarts(CartDb, userId)[1].id
SessionCartOf(sessionId) == SessionCarts(CartDb, sessionId)[1].id

\* C1: a getOrCreateCart call that finds a user cart U and an ownerless session
\* cart S, where no combined quantity exceeds MAX_ITEM_QUANTITY and the merged
\* cart has at most MAX_CART_ITEMS products, returns U without error; for every
\* product U then holds its quantity in U before plus its quantity in S
\* before, in at most one row per product; S and its item rows are gone.
C1_MergeAddsQuantities ==
  \A userId \in Users, sessionId \in Sessions :
    \A order \in MergeOrders(CartDb, userId, sessionId) :
      LET r == getOrCreateCart(CartDb, userId, sessionId, order)
          U == UserCartOf(userId)
          S == SessionCartOf(sessionId)
      IN (/\ Branch(CartDb, userId, sessionId) = "merge"
          /\ \A p \in ProductIds : Qty(items, U, p) + Qty(items, S, p) <= MAX_ITEM_QUANTITY
          /\ Cardinality({p \in ProductIds : Qty(items, U, p) + Qty(items, S, p) > 0})
               <= MAX_CART_ITEMS)
         => (/\ r.err = NONE
             /\ r.ret = U
             /\ \A p \in ProductIds :
                  /\ Qty(r.db.items, U, p) = Qty(items, U, p) + Qty(items, S, p)
                  /\ Cardinality({i \in r.db.items : i.cartId = U /\ i.productId = p}) <= 1
             /\ \A c \in Range(r.db.carts) : c.id # S
             /\ \A i \in r.db.items : i.cartId # S)

\* A merge has returned the user cart, which holds two products, one of them
\* at the cap, and is the only cart left.
C1_Witness ==
  /\ cartLast.op = "getOrCreateCart"
  /\ cartLast.branch = "merge"
  /\ cartLast.err = NONE
  /\ Len(carts) = 1
  /\ carts[1].id = cartLast.ret
  /\ \E i, j \in items :
       /\ i.cartId = cartLast.ret /\ j.cartId = cartLast.ret
       /\ i.productId # j.productId
       /\ i.quantity = MAX_ITEM_QUANTITY

\* A quantity argument addItemToCart must reject by itself.
InvalidQuantity(q) ==
  \/ q.frac
  \/ q.n <= 0
  \/ q.n > MAX_ITEM_QUANTITY

\* C2: addItemToCart on a cart that already holds the product with quantity e,
\* where e + q exceeds MAX_ITEM_QUANTITY, is rejected with an error and changes
\* no row (the stored quantity is still e); so is a call whose q is not a
\* positive integer or exceeds MAX_ITEM_QUANTITY.
C2_OverCapAddRejected ==
  \A cartId \in CartIds, productId \in ProductIds, quantity \in Quantities :
    LET r == addItemToCart(CartDb, cartId, productId, quantity)
    IN (\/ InvalidQuantity(quantity)
        \/ \E i \in items : /\ i.cartId = cartId
                             /\ i.productId = productId
                             /\ i.quantity + quantity.n > MAX_ITEM_QUANTITY)
       => (/\ r.err # NONE
           /\ r.db.items = items
           /\ r.db.carts = carts)

\* An add of a valid quantity was rejected because the total would pass the
\* cap, in a cart that holds the product.
C2_Witness ==
  /\ cartLast.op = "addItemToCart"
  /\ cartLast.err = "Total quantity cannot exceed MAX_ITEM_QUANTITY per item"
  /\ \E i \in items : i.quantity >= 1

\* C10: a getOrCreateCart call whose merge fails surfaces the error and
\* changes nothing: every item row of the user cart and of the session cart
\* is as before the call, and the session cart still exists.
C10_FailedMergeChangesNothing ==
  \A userId \in Users, sessionId \in Sessions :
    \A order \in MergeOrders(CartDb, userId, sessionId) :
      LET r == getOrCreateCart(CartDb, userId, sessionId, order)
      IN (Branch(CartDb, userId, sessionId) = "merge" /\ r.err # NONE)
         => (/\ r.db.items = items
             /\ \E c \in Range(r.db.carts) : c.id = SessionCartOf(sessionId))

\* C11: no cart holds two item rows of one product, and an accepted add of a
\* product the cart already holds leaves the rows' ids as they were and
\* raises that row's quantity by the amount added.
C11_OneRowPerProduct ==
  /\ \A i, j \in items : (i.cartId = j.cartId /\ i.productId = j.productId) => i = j
  /\ \A cartId \in CartIds, productId \in ProductIds, quantity \in Quantities :
       LET r == addItemToCart(CartDb, cartId, productId, quantity)
       IN \A i \in items :
            (i.cartId = cartId /\ i.productId = productId /\ r.err = NONE)
            => /\ {j.id : j \in r.db.items} = {j.id : j \in items}
               /\ \E j \in r.db.items : j.id = i.id /\ j.quantity = i.quantity + quantity.n

\* An add was accepted and left a single row, at the cap, in its cart and
\* a second cart holds the same product.
C11_Witness ==
  /\ cartLast.op = "addItemToCart"
  /\ cartLast.err = NONE
  /\ \E i, j \in items :
       /\ i.cartId # j.cartId
       /\ i.productId = j.productId
       /\ i.quantity = MAX_ITEM_QUANTITY
  /\ Cardinality(items) = 2

\* C12: every stored quantity is between 1 and MAX_ITEM_QUANTITY.
C12_QuantityInRange ==
  \A i \in items : i.quantity \in 1..MAX_ITEM_QUANTITY

\* A merge summed two quantities to exactly the cap.
C12_Witness ==
  /\ cartLast.op = "getOrCreateCart"
  /\ cartLast.branch = "merge"
  /\ cartLast.err = NONE
  /\ Cardinality(items) = 1
  /\ \A i \in items : i.quantity = MAX_ITEM_QUANTITY

\* C13: every cart holds at most MAX_CART_ITEMS item rows, and an add of a
\* product the cart does not hold to a cart with MAX_CART_ITEMS rows is
\* rejected and changes nothing.
C13_AtMostMaxCartItems ==
  /\ \A c \in Range(carts) : Cardinality(CartItems(CartDb, c.id)) <= MAX_CART_ITEMS
  /\ \A cartId \in CartIds, productId \in ProductIds, quantity \in Quantities :
       LET r == addItemToCart(CartDb, cartId, productId, quantity)
       IN (/\ Cardinality({i \in items : i.cartId = cartId}) >= MAX_CART_ITEMS
           /\ \A i \in items : i.cartId = cartId => i.productId # productId)
          => (r.err # NONE /\ r.db = CartDb)

\* An add to a full cart was rejected.
C13_Witness ==
  /\ cartLast.op = "addItemToCart"
  /\ cartLast.err = "Cart cannot have more than MAX_CART_ITEMS items"
  /\ \E c \in Range(carts) : Cardinality(CartItems(CartDb, c.id)) = MAX_CART_ITEMS

\* C15: getOrCreateCart(userId, sessionId), when the user owns no cart and
\* the session has an ownerless cart S, returns S with userId set to the
\* caller and sessionId null; no item row changes and no cart row is created
\* or deleted.
C15_RehomeKeepsCartAndItems ==
  \A userId \in Users, sessionId \in Sessions :
    LET r == getOrCreateCart(CartDb, userId, sessionId, <<>>)
        S == {c \in Range(carts) : c.userId = NULL /\ c.sessionId = sessionId}
    IN ((\A c \in Range(carts) : c.userId # userId) /\ S # {})
       => /\ r.err = NONE
          /\ \E c \in S : r.ret = c.id
          /\ \A c \in Range(r.db.carts) :
               c.id = r.ret => (c.userId = userId /\ c.sessionId = NULL)
          /\ r.db.items = items
          /\ {c.id : c \in Range(r.db.carts)} = {c.id : c \in Range(carts)}
          /\ Len(r.db.carts) = Len(carts)
          /\ \A c \in Range(carts) : c.id # r.ret => c \in Range(r.db.carts)

\* A session cart holding items was re-homed to the user.
C15_Witness ==
  /\ cartLast.op = "getOrCreateCart"
  /\ cartLast.branch = "rehome"
  /\ cartLast.err = NONE
  /\ \E c \in Range(carts) :
       /\ c.id = cartLast.ret
       /\ c.userId \in Users
       /\ c.sessionId = NULL
       /\ CartItems(CartDb, c.id) # {}

\* C16: a user owns at most one cart and a session has at most one ownerless
\* cart, and a second getOrCreateCart call with the same identity returns
\* the cart of the first and creates none.
C16_OneCartPerIdentity ==
  /\ \A userId \in Users :
       Cardinality({c \in Range(carts) : c.userId = userId}) <= 1
  /\ \A sessionId \in Sessions :
       Cardinality({c \in Range(carts) : c.userId = NULL /\ c.sessionId = sessionId}) <= 1
  /\ \A userId \in Users \cup {NULL}, sessionId \in Sessions \cup {NULL} :
       (userId # NULL \/ sessionId # NULL)
       => \A order \in MergeOrders(CartDb, userId, sessionId) :
            LET first == getOrCreateCart(CartDb, userId, sessionId, order)
                second == getOrCreateCart(first.db, userId, sessionId, <<>>)
            IN first.err = NONE
               => /\ second.err = NONE
                  /\ second.ret = first.ret
                  /\ second.db = first.db

\* A call found the caller's cart while a user cart and an ownerless session
\* cart both exist.
C16_Witness ==
  /\ cartLast.op = "getOrCreateCart"
  /\ cartLast.branch = "found"
  /\ \E c, d \in Range(carts) :
       /\ c.userId \in Users
       /\ d.userId = NULL /\ d.sessionId \in Sessions
       /\ cartLast.ret \in {c.id, d.id}

\* C17: a getOrCreateCart call that creates a cart for an owner (a user, or
\* a session for ownerless carts) who already has n >= cap carts deletes the
\* n - (cap - 1) least recently updated of them with their item rows, keeps
\* the cap - 1 most recently updated, and inserts the new cart.
C17_EvictsLeastRecentlyUpdated ==
  \A userId \in Users \cup {NULL}, sessionId \in Sessions \cup {NULL} :
    LET owned == IF userId # NULL
                 THEN SelectSeq(carts, LAMBDA c : c.userId = userId)
                 ELSE SelectSeq(carts, LAMBDA c : c.userId = NULL /\ c.sessionId = sessionId)
        cap == IF userId # NULL THEN MAX_CARTS_PER_USER ELSE MAX_SESSION_CARTS
        n == Len(owned)
        gone == {owned[k].id : k \in cap..n}
        r == CreateCart(CartDb, userId, sessionId)
    IN ((userId # NULL \/ sessionId # NULL) /\ (userId = NULL \/ sessionId = NULL)
        /\ n >= cap)
       => /\ r.err = NONE
          /\ Cardinality(gone) = n - (cap - 1)
          /\ r.ret \notin (CartIds \ gone)
          /\ r.db.items = {i \in items : i.cartId \notin gone}
          /\ {c \in Range(r.db.carts) : c.id # r.ret}
               = {c \in Range(carts) : c.id \notin gone}
          /\ \E c \in Range(r.db.carts) :
               c.id = r.ret /\ c.userId = userId /\ c.sessionId = sessionId
          /\ Len(r.db.carts) = Len(carts) - Cardinality(gone) + 1

\* A cart was created for an owner at the cap: the owner is left with cap
\* carts, the newest being the one returned.
C17_Witness ==
  /\ cartLast.op = "getOrCreateCart"
  /\ cartLast.branch = "evict"
  /\ cartLast.err = NONE
  /\ carts[1].id = cartLast.ret
  /\ \/ Len(SelectSeq(carts, LAMBDA c : c.userId = carts[1].userId)) = MAX_CARTS_PER_USER
     \/ /\ carts[1].userId = NULL
        /\ Len(SelectSeq(carts, LAMBDA c : c.userId = NULL /\ c.sessionId = carts[1].sessionId))
             = MAX_SESSION_CARTS

\* The caller owns the cart: authenticated and cart.userId is the caller, or
\* anonymous with a session cookie that is the sessionId of an ownerless cart.
OwnsCart(userId, sessionId, cartId) ==
  \E c \in Range(carts) :
    /\ c.id = cartId
    /\ \/ userId # NULL /\ c.userId = userId
       \/ userId = NULL /\ sessionId # NULL /\ c.userId = NULL /\ c.sessionId = sessionId

\* What C14 asks of one answer of a mutating route.
Guarded(r, userId, sessionId, cartId) ==
  /\ r.invoked => OwnsCart(userId, sessionId, cartId)
  /\ ~OwnsCart(userId, sessionId, cartId)
     => /\ r.db = CartDb
        /\ r.status = IF cartId \in CartIds THEN "403" ELSE "404"

C29_AnonymousNeverReachesUserCart ==
  /\ \A sessionId \in Sessions \cup {NULL} :
       \A c \in Range(carts) :
         c.userId # NULL => Gate(CartDb, NULL, sessionId, c.id) = "403"
  /\ \A sessionId \in Sessions, cartIdParam \in PathCartIds :
       LET r == GETCart(CartDb, NULL, sessionId, cartIdParam, <<>>)
       IN /\ r.err = NONE
          /\ \E c \in Range(r.db.carts) :
               c.id = r.ret /\ c.userId = NULL /\ c.sessionId = sessionId
          /\ \A c \in Range(carts) :
               c.userId # NULL
               => /\ c.id # r.ret
                  /\ c \in Range(r.db.carts)
                  /\ CartItems(r.db, c.id) = CartItems(CartDb, c.id)

\* A session cart with items has just been re-homed or merged into the
\* user's cart, and the session has no ownerless cart left: the next
\* anonymous request of that session gets a new, empty cart.
C29_Witness ==
  /\ cartLast.op = "getOrCreateCart"
  /\ cartLast.branch \in {"rehome", "merge"}
  /\ \E c \in Range(carts) :
       /\ c.userId \in Users
       /\ CartItems(CartDb, c.id) # {}
  /\ \A c \in Range(carts) : c.userId # NULL

\* C30: updateCartItemQuantity(cartId, itemId, q) and
\* removeCartItem(cartId, itemId) leave every item row of every other cart
\* as it was; with the itemId of a row of another cart the update throws
\* and the remove deletes nothing.
C30_OtherCartsItemsUntouched ==
  \A cartId \in CartIds, itemId \in ItemIds :
    LET others == {i \in items : i.cartId # cartId}
        foreign == \E i \in others : i.id = itemId
        d == removeCartItem(CartDb, cartId, itemId)
    IN /\ {i \in d.db.items : i.cartId # cartId} = others
       /\ foreign => d.db.items = items
       /\ \A quantity \in Quantities :
            LET u == updateCartItemQuantity(CartDb, cartId, itemId, quantity)
            IN /\ {i \in u.db.items : i.cartId # cartId} = others
               /\ foreign => (u.err # NONE /\ u.db.items = items)

\* An update named a cart and the id of an existing row of another cart,
\* and was refused.
C30_Witness ==
  /\ cartLast.op = "updateCartItemQuantity"
  /\ cartLast.err = "Cart item not found or does not belong to this cart"
  /\ Len(carts) = 2
  /\ items # {}

RequestFails(script) ==
  \/ \E k \in 1..Len(script) :
       /\ k <= maxRetries + 1
       /\ script[k] = "error"
       /\ \A j \in 1..(k - 1) : script[j] = "retryable"
  \/ /\ Len(script) > maxRetries
     /\ \A j \in 1..(maxRetries + 1) : script[j] = "retryable"

\* The sync committed nothing and reported the failure.
SyncCommittedNothing(r) ==
  /\ r.db = CatDb
  /\ r.result.synced = 0
  /\ r.result.errors >= 1

\* C19 as stated: whenever a page request of the fetch fails (retries
\* exhausted or a non-retryable error, on the first page or a later one),
\* syncAllProductsFromClover changes no row and returns synced = 0 with an
\* error.
C19_AnyPageFailureCommitsNothing ==
  \A feed \in Feeds : \A scenario \in FetchScenarios(feed) :
    (scenario.verified
     /\ \E k \in 1..Len(scenario.pages) : RequestFails(scenario.pages[k]))
    => SyncCommittedNothing(syncAllProductsFromClover(CatDb, feed, scenario))

\* C19 amended: whenever the fetch fails, that is the connection check
\* fails, a page after the first fails, or the first page fails and so does
\* the request without limit and offset that is tried in its place,
\* syncAllProductsFromClover changes no row and returns synced = 0 with an
\* error.
C19_FailedFetchCommitsNothing ==
  \A feed \in Feeds : \A scenario \in FetchScenarios(feed) :
    (\/ ~scenario.verified
     \/ \E k \in 2..Len(scenario.pages) : RequestFails(scenario.pages[k])
     \/ RequestFails(scenario.pages[1]) /\ RequestFails(scenario.fallback))
    => SyncCommittedNothing(syncAllProductsFromClover(CatDb, feed, scenario))

\* A sync failed after an earlier one had stored rows: the rows are there
\* and the result reports nothing synced and an error.
C19_Witness ==
  /\ catLast.op = "sync"
  /\ catLast.result.synced = 0
  /\ catLast.result.errors = 1
  /\ products # {}

\* A provider answer that is a transport failure, a non-OK status, content
\* that is no JSON, or JSON without cleanedName or without brand.
NoResult(response) ==
  \/ response.kind \in {"transport", "429", "error", "text"}
  \/ /\ response.kind = "json"
     /\ \/ "cleanedName" \notin DOMAIN response.data
        \/ "brand" \notin DOMAIN response.data

\* C20: a cleanProductNameWithAI call that finds nothing usable in the cache
\* and gets from each provider a transport failure, a non-OK status, content
\* that is no JSON, or JSON that lacks cleanedName or brand, returns null.
C20_MalformedAnswerGivesNull ==
  (/\ catLast.op = "classify"
   /\ catLast.result.cached.kind # "json"
   /\ NoResult(catLast.result.groq)
   /\ NoResult(catLast.result.hf))
  => catLast.result.value = NullResult

\* C21: in a cleanProductNameWithAI call that misses the cache, the Hugging
\* Face fallback is called only when Groq answered 429; when Groq fails in
\* another way (non-OK status, no JSON, no cleanedName) the fallback is not
\* called and null is returned; a result from either provider is stored in
\* the cache under the original name.
C21_FallbackOnlyOnRateLimit ==
  (/\ catLast.op = "classify"
   /\ catLast.result.cached.kind # "json")
  => /\ catLast.result.fallback => catLast.result.groq.kind = "429"
     /\ (/\ catLast.result.groq.kind # "429"
         /\ \/ catLast.result.groq.kind \in {"error", "text"}
            \/ /\ catLast.result.groq.kind = "json"
               /\ "cleanedName" \notin DOMAIN catLast.result.groq.data)
        => /\ ~catLast.result.fallback
           /\ catLast.result.value = NullResult
     /\ catLast.result.value # NullResult
        => catLast.result.stored
             = {[key |-> catLast.result.originalName,
                 value |-> catLast.result.value]}

\* C22: a sync inserts or updates no products row for an upstream item
\* whose price is not greater than 0: the rows of such an item are after
\* syncAllProductsFromClover what they were before.
C22_SyncSkipsUnpricedItems ==
  \A feed \in UpstreamFeeds :
    \A scenario \in FetchScenarios(feed) :
      LET r == syncAllProductsFromClover(CatDb, feed, scenario)
      IN \A id \in DOMAIN feed :
           ~(feed[id].price > 0)
           => {p \in r.db.products : p.clover_id = id}
                = {p \in products : p.clover_id = id}

\* C23: updateParentStock(parentId) leaves the products row parentId with
\* the sum of stock over the variants whose product_id is parentId (0 when
\* there is none), changes no variant, changes nothing else of any products
\* row, and a second call changes nothing more.
C23_ParentStockIsVariantSumIdempotent ==
  \A parentId \in {p.id : p \in products} :
    LET r == updateParentStock(CatDb, parentId)
        total == SumStock({v \in variants : v.product_id = parentId})
    IN /\ r.variants = variants
       /\ r.products = {IF p.id = parentId THEN [p EXCEPT !.stock_quantity = total]
                                           ELSE p : p \in products}
       /\ updateParentStock(r, parentId) = r

\* A recalculation has just corrected a Parent's stock: once to the sum of
\* its variants, once to 0 for a Parent left without variants.
C23_Witness ==
  /\ catLast.op = "updateParentStock"
  /\ \E p \in products :
       /\ p.id = catLast.result.parentId
       /\ p.is_parent
       /\ p.stock_quantity # catLast.result.before
       /\ p.stock_quantity = 0
       /\ \A v \in variants : v.product_id # p.id

\* C24: a request of addItemToCart whose select found no row of the product
\* and whose getCart saw a cart that was not full inserts its row whatever
\* rows the cart holds by then: the cart has one row more of that product
\* than before the insert, also when another request has inserted one in
\* between.
C24_InsertIsUnconditional ==
  \A r \in Requests :
    (/\ calls[r].pc = "write"
     /\ calls[r].existing = {}
     /\ calls[r].count < MAX_CART_ITEMS
     /\ getCart(CartDb, calls[r].cartId) # {})
    => LET s == addItemToCartStep(CartDb, calls[r])
           now == {i \in items : /\ i.cartId = calls[r].cartId
                                 /\ i.productId = calls[r].productId}
           then == {i \in s.db.items : /\ i.cartId = calls[r].cartId
                                       /\ i.productId = calls[r].productId}
       IN /\ s.call.inserted
          /\ now \subseteq then
          /\ Cardinality(then) = Cardinality(now) + 1

\* Both requests added the same product to the same cart, both found no
\* row and both inserted: the cart holds two rows of the product.
C24_Witness ==
  /\ \A r \in Requests : /\ calls[r].pc = "done"
                          /\ calls[r].existing = {}
                          /\ calls[r].inserted
  /\ calls["r1"].cartId = calls["r2"].cartId
  /\ calls["r1"].productId = calls["r2"].productId
  /\ Cardinality({i \in items : /\ i.cartId = calls["r1"].cartId
                                /\ i.productId = calls["r1"].productId}) = 2

\* C25: when two getOrCreateCart(userId, sessionId) calls of a visitor with
\* a user cart and a session cart overlap, then after both have returned
\* a cart the user cart holds, for every product, one row at most, and the
\* quantity it held before the first call plus the quantity the session
\* cart held.
C25_OverlappingMergesAbsorbOnce ==
  \A r1, r2 \in Requests :
    (/\ r1 # r2
     /\ calls[r1].pc = "done" /\ calls[r2].pc = "done"
     /\ calls[r1].op = "getOrCreateCart" /\ calls[r2].op = "getOrCreateCart"
     /\ calls[r1].err = NONE /\ calls[r2].err = NONE
     /\ ~calls[r1].overlap /\ calls[r2].overlap
     /\ calls[r1].userCartId # 0 /\ calls[r1].sessionCartId # 0)
    => \A p \in ProductIds :
         /\ Cardinality({i \in items : /\ i.cartId = calls[r1].userCartId
                                       /\ i.productId = p}) <= 1
         /\ Qty(items, calls[r1].userCartId, p)
              = Qty(calls[r1].began, calls[r1].userCartId, p)
                + Qty(calls[r1].began, calls[r1].sessionCartId, p)

\* C26: in every state, the states reached while two runs of
\* normalizeUnnormalizedProducts interleave included, the products table
\* holds at most one Parent row per (clean_brand, clean_model).
C26_OneParentPerBrandModel ==
  \A p, q \in products :
    (/\ p.is_parent /\ q.is_parent
     /\ p.clean_brand = q.clean_brand
     /\ p.clean_model = q.clean_model)
    => p = q

\* C27: when a getOrCreateCart(userId, sessionId) call of a visitor with a
\* user cart and a session cart fails and the call is repeated, the repeated
\* call leaves the user cart's rows as the failed call left them, and no
\* product's quantity in the user cart exceeds the quantity the user cart
\* held before the first call plus the quantity the session cart held.
C27_RepeatedMergeAddsNothing ==
  \A userId \in Users, sessionId \in Sessions :
    \A first \in MergeOrders(CartDb, userId, sessionId) :
      LET r1 == getOrCreateCart(CartDb, userId, sessionId, first)
      IN (Branch(CartDb, userId, sessionId) = "merge" /\ r1.err # NONE)
         => \A again \in MergeOrders(r1.db, userId, sessionId) :
              LET r2 == getOrCreateCart(r1.db, userId, sessionId, again)
              IN /\ CartItems(r2.db, UserCartOf(userId)) = CartItems(r1.db, UserCartOf(userId))
                 /\ \A p \in ProductIds :
                      Qty(r2.db.items, UserCartOf(userId), p)
                        <= Qty(items, UserCartOf(userId), p)
                           + Qty(items, SessionCartOf(sessionId), p)

\* C28: from any state, once a sync has run and a normalization run has
\* processed every row getUnnormalizedProducts returns, each classified
\* without error, every variant's stock_quantity is the stock_quantity of
\* the products row with the same Clover id.
C28_VariantStockFollowsRawStock ==
  \A feed \in Feeds :
    LET synced == syncAllProductsFromClover(CatDb, feed, Answering(feed)).db
    IN \A rows \in getUnnormalizedProducts(synced, Cardinality(CloverIds)) :
         LET answers == [k \in 1..Len(rows) |-> Classified(rows[k].raw_name)]
             quiet == normalizeUnnormalizedProducts(synced, rows, answers).db
         IN \A v \in quiet.variants :
              \A p \in quiet.products :
                p.clover_id = v.clover_item_id => v.stock_quantity = p.stock_quantity

\* C18: an ITEM_DELETE event for item X leaves the products row of X with
\* stock 0 and deletes no products or product_variants row; an ITEM_CREATE
\* event is answered with success and changes no row.
C18_DeleteZeroesStockCreateIsDeferred ==
  \A body \in WebhookBodies :
    LET r == WebhookPOST(CatDb, body)
    IN /\ (body.type = "ITEM_DELETE" /\ body.itemId # NULL)
          => /\ \A row \in r.db.products :
                  row.clover_id = body.itemId => row.stock_quantity = 0
             /\ {row.id : row \in r.db.products} = {row.id : row \in products}
             /\ \A row \in products :
                  row.clover_id # body.itemId => row \in r.db.products
             /\ r.db.variants = variants
             /\ r.response.success
       /\ body.type = "ITEM_CREATE"
          => (r.db = CatDb /\ r.response.success /\ r.response.status = 200)

\* An ITEM_DELETE event came for an item that had been normalized: its row
\* is there with stock 0 and so is its variant.
C18_Witness ==
  /\ catLast.op = "ITEM_DELETE"
  /\ \E row \in products :
       /\ row.clover_id \in CloverIds
       /\ row.stock_quantity = 0
       /\ row.is_normalized
       /\ \E v \in variants : v.clover_item_id = row.clover_id

\* What the classifier hands the normalizer for a row.
AI(answer) == cleanProductNameWithAI(answer.cached, answer.groq, answer.hf)

\* The classifier returned null or a low-confidence result.
Unclassifiable(answer) == ~AI(answer).ok \/ AI(answer).confidence = "low"

Parents(ps) == {p \in ps : p.is_parent}

VariantsOf(vs, parentId) == {v \in vs : v.product_id = parentId}

VariantsFor(vs, cloverId) == {v \in vs : v.clover_item_id = cloverId}

RowsFor(ps, cloverId) == {r \in ps : r.clover_id = cloverId}

\* C3: a sync of an upstream item whose raw row exists with is_normalized
\* true updates the row's price and stock, leaves is_normalized true, leaves
\* the clean fields unchanged and leaves the variants unchanged.
C3_SyncKeepsNormalized ==
  \A feed \in Feeds : \A scenario \in FetchScenarios(feed) :
    LET r == syncAllProductsFromClover(CatDb, feed, scenario)
    IN \A row \in products :
         (/\ ~fetchCloverInventoryServer(feed, scenario).threw
          /\ row.clover_id \in DOMAIN feed
          /\ row.is_normalized)
         => /\ r.db.variants = variants
            /\ \E n \in r.db.products :
                 /\ n.id = row.id
                 /\ n.price = feed[row.clover_id].price
                 /\ n.stock_quantity = feed[row.clover_id].stockCount
                 /\ n.is_normalized
                 /\ n.clean_name = row.clean_name
                 /\ n.clean_brand = row.clean_brand
                 /\ n.clean_model = row.clean_model
                 /\ n.clean_size = row.clean_size
                 /\ n.product_type = row.product_type

\* C4: after a normalization run that attached a row as a variant, every
\* Parent's stock_quantity is the sum of the stock_quantity of the variants
\* whose product_id is that Parent.
C4_EveryParentStockIsVariantSum ==
  (catLast.op = "normalize" /\ catLast.result.normalized >= 1)
  => \A p \in Parents(products) :
       p.stock_quantity = SumStock(VariantsOf(variants, p.id))

C7_AllNormalizedIsNoOp ==
  (\A row \in products : row.is_normalized)
  => \A rows \in Batches(CatDb) :
       \A answers \in ValidAnswers(rows) :
         LET r == normalizeUnnormalizedProducts(CatDb, rows, answers)
         IN /\ rows = <<>>
            /\ r.result.total = 0
            /\ r.db = CatDb

\* A run over a catalog that holds a normalized raw row and its Parent
\* processed nothing.
C7_Witness ==
  /\ catLast.op = "normalize"
  /\ catLast.result.total = 0
  /\ \A r \in products : r.is_normalized
  /\ \E r \in products : r.clover_id # NULL
  /\ Parents(products) # {}

\* C8: every row of a run whose classification is null or of low confidence
\* ends normalized, of product_type other, its clean_name its raw_name, not a
\* Parent, with the variants of its item as they were; the run creates no
\* more Parents than it has classified rows; no row of the run is left
\* unnormalized.
C8_UnclassifiableRowParked ==
  \A rows \in Batches(CatDb) :
    \A answers \in ValidAnswers(rows) :
      LET r == normalizeUnnormalizedProducts(CatDb, rows, answers)
      IN /\ \A k \in 1..Len(rows) :
              Unclassifiable(answers[k])
              => /\ Cardinality(RowsFor(r.db.products, rows[k].clover_id)) = 1
                 /\ \A row \in RowsFor(r.db.products, rows[k].clover_id) :
                      /\ row.is_normalized
                      /\ row.product_type = "other"
                      /\ row.clean_name = row.raw_name
                      /\ ~row.is_parent
                 /\ VariantsFor(r.db.variants, rows[k].clover_id)
                      = VariantsFor(variants, rows[k].clover_id)
         /\ Cardinality(Parents(r.db.products)) - Cardinality(Parents(products))
              <= Cardinality({k \in 1..Len(rows) : ~Unclassifiable(answers[k])})
         /\ \A k \in 1..Len(rows) :
              \A row \in RowsFor(r.db.products, rows[k].clover_id) : row.is_normalized

\* A run parked a row: it is normalized, of type other and named as upstream,
\* and no Parent or variant exists.
C8_Witness ==
  /\ catLast.op = "normalize"
  /\ catLast.result.synced >= 1
  /\ Parents(products) = {}
  /\ variants = {}
  /\ \E r \in products :
       /\ r.is_normalized
       /\ r.product_type = "other"
       /\ r.clean_name = r.raw_name

\* C9: when Groq answers row k of a run with a 429 (nothing cached, the
\* fallback failing too), the run stops there: the result has rateLimited
\* true, and row k and every later row of the batch keep is_normalized false.
C9_RateLimitStopsBatch ==
  \A rows \in Batches(CatDb) :
    \A answers \in ValidAnswers(rows) :
      LET r == normalizeUnnormalizedProducts(CatDb, rows, answers)
      IN \A k \in 1..Len(rows) :
           (/\ answers[k].cached.kind # "json"
            /\ answers[k].groq.kind = "429"
            /\ answers[k].hf.kind # "json"
            /\ \A j \in 1..(k - 1) : answers[j].groq.kind # "429")
           => /\ r.result.rateLimited
              /\ \A j \in k..Len(rows) :
                   \A row \in RowsFor(r.db.products, rows[j].clover_id) : ~row.is_normalized


\* C32: in a run where no store error carries the rate-limit signal, a row
\* whose variant upsert or whose final update fails is recorded as one error
\* (the errors are as many as the rows that failed), rateLimited stays
\* false, and the loop goes on: every row of the batch is reached, and every
\* row the store did not fail is marked normalized when the run returns.
C32_FailedRowIsRecordedAndSkipped ==
  \A rows \in Batches(CatDb) :
    \A answers \in RowAnswersFrom(rows, 1) :
      \A faults \in FaultsFor(rows) :
        LET r == normalizeWithFaults(CatDb, rows, answers, faults)
            failed == {k \in 1..Len(rows) :
                         \/ faults[k].at = "updateProductByCloverById"
                         \/ /\ faults[k].at = "insertVariant"
                            /\ answers[k] # Unparsed}
        IN (\A k \in 1..Len(rows) : ~faults[k].has429)
           => /\ Len(r.outcomes) = Len(rows)
              /\ \A k \in failed : r.outcomes[k] = "error"
              /\ r.result.errors =
                   Cardinality({k \in 1..Len(rows) : r.outcomes[k] = "error"})
              /\ ~r.result.rateLimited
              /\ r.result.total = Len(rows)
              /\ \A k \in 1..Len(rows) :
                   faults[k] = NoFault
                   => \A row \in RowsFor(r.db.products, rows[k].clover_id) :
                        row.is_normalized

\* A run of two rows whose first row failed in the store and was recorded,
\* and whose second row was normalized after it.
C32_Witness ==
  /\ catLast.op = "normalizeFaulted"
  /\ Len(catLast.result.ids) = 2
  /\ catLast.result.outcomes = <<"error", "normalized">>
  /\ catLast.result.result.errors = 1
  /\ ~catLast.result.result.rateLimited
  /\ \E row \in RowsFor(products, catLast.result.ids[1]) : ~row.is_normalized
  /\ \E row \in RowsFor(products, catLast.result.ids[2]) : row.is_normalized

\* C33: a fetch never has more than maxPages pages behind it and requests
\* no page past the cap, its offset is limit times the pages read, every page
\* read before the one requested was full (a short page ends the fetch), the
\* request in hand has been attempted at most maxRetries + 1 times, and the
\* fetch always comes to an end, by returning or by throwing.
C33_Bounded ==
  \A r \in Requests :
    calls[r].pc \in {"page", "done", "threw"}
    => /\ calls[r].pageCount <= maxPages
       /\ calls[r].pc = "page" => calls[r].pageCount < maxPages
       /\ calls[r].offset = calls[r].pageCount * pageLimit
       /\ (calls[r].pc = "page" /\ ~calls[r].fallback)
          => calls[r].fetched = calls[r].pageCount * pageLimit
       /\ calls[r].attempts <= maxRetries + 1
       /\ calls[r].retryCount <= maxRetries

C33_FetchTerminates ==
  /\ []C33_Bounded
  /\ \A r \in Requests : (calls[r].pc = "page") ~> (calls[r].pc \in {"done", "threw"})

\* A fetch that read maxPages full pages and stopped at the cap.
C33_Witness ==
  \E r \in Requests :
    /\ calls[r].pc = "done"
    /\ "pageCount" \in DOMAIN calls[r]
    /\ calls[r].pageCount = maxPages
    /\ calls[r].fetched = maxPages * pageLimit

\* C34: the base wait before retry k of a request answered 429/502/503 is
\* N * 1000 ms when the response carried a Retry-After of N seconds, and
\* min(1000 * 2^k, 8000) ms otherwise.
C34_WaitIsRetryAfterOrBackoff ==
  \A r \in Requests :
    (calls[r].pc \in {"page", "done", "threw"} /\ calls[r].wait # 0)
    => calls[r].wait = IF calls[r].header.kind = "seconds"
                       THEN calls[r].header.n * 1000
                       ELSE Backoff(calls[r].waitedAt)

\* C35: after a call for a name returned a result, a call for any name with
\* the same normalized form, made while the entry's age is below the cache
\* duration, returns that result without asking a provider, whatever the
\* providers would answer; a call that returns null stores nothing.
C35_SameNormalizedNameIsServedFromCache ==
  \A n1 \in ProductNames, groq \in GroqAnswers, hf \in HFAnswers :
    LET first == cleanProductNameWithAIAt(aiImprovementCache, dateNow, n1, groq, hf)
        entry == {e \in first.cache : e.key = normalizeProductName(n1)}
    IN /\ ~first.value.ok
          => first.cache = getCachedHFImprovementAt(aiImprovementCache, dateNow, n1).cache
       /\ first.value.ok
          => /\ Cardinality(entry) = 1
             /\ \A n2 \in ProductNames, t \in dateNow..MaxNow, e \in entry :
                  (/\ normalizeProductName(n2) = normalizeProductName(n1)
                   /\ t - e.timestamp < AI_IMPROVEMENT_CACHE_DURATION)
                  => \A groq2 \in GroqAnswers, hf2 \in HFAnswers :
                       LET second == cleanProductNameWithAIAt(first.cache, t, n2, groq2, hf2)
                       IN /\ second.value = first.value
                          /\ ~second.providerCalled

\* A call served from the cache under a spelling other than the normalized
\* name, at a later time than the entry was stored.
C35_Witness ==
  /\ catLast.op = "classifyCached"
  /\ catLast.result.value.ok
  /\ ~catLast.result.providerCalled
  /\ catLast.result.respelled
  /\ \E e \in aiImprovementCache :
       /\ e.timestamp < dateNow
       /\ e.improvedName = catLast.result.value

C37_DelayAfterEveryRow ==
  catLast.op = "normalizeFaulted"
  => \A k \in 1..(Len(catLast.result.steps) - 1) :
       ~(/\ catLast.result.steps[k] = "classify"
         /\ catLast.result.steps[k + 1] = "classify")

\* C38: the Parent and raw roles are disjoint: a row with a clover_id has
\* is_parent false, whether normalized or not, and a row with is_parent true
\* has no clover_id, is_normalized true and a clean name.
C38_ParentAndRawRolesDisjoint ==
  \A row \in products :
    /\ row.clover_id # NULL => ~row.is_parent
    /\ row.is_parent => /\ row.clover_id = NULL
                        /\ row.is_normalized
                        /\ row.clean_name # NULL

\* A Parent and a normalized raw row side by side, after a stock event
\* reached the raw row.
C38_Witness ==
  /\ catLast.op = "INVENTORY_UPDATE"
  /\ \E parent \in products : parent.is_parent /\ parent.clover_id = NULL
  /\ \E row \in products :
       /\ row.clover_id # NULL
       /\ row.is_normalized
       /\ row.clean_name # NULL
       /\ row.clean_name # row.raw_name

\* C39: the bulk-normalize loop ends after finitely many batches, and when it
\* has ended no raw row with stock is left with is_normalized false.
C39_BulkLoopEndsWithNothingLeft ==
  /\ \A r \in Requests : (calls[r].pc = "batch") ~> (calls[r].pc = "exited")
  /\ [](\A r \in Requests : calls[r].pc = "exited" => Unnormalized(CatDb) = {})

====
